---- MODULE Spec2Model ----
(***************************************************************************)
(* Model of the photo-frame compositor (utils/imageProcessor):             *)
(*   renderCompositeToCanvas  - the synchronous compositor                 *)
(*   mergeImages              - the asynchronous export wrapper            *)
(* Numbers that are JavaScript doubles in the source are doubles here:     *)
(* every arithmetic operation of the source rounds its result to the       *)
(* nearest double, ties to even.  Angles are kept in degrees (the source   *)
(* converts to radians only to hand them to ctx.rotate), and the sine and  *)
(* cosine of an angle are fixed-point numbers over TrigScale.              *)
(***************************************************************************)
EXTENDS Integers, Sequences, FiniteSets, TLC

(***************************************************************************)
(* Bounds of the model.                                                    *)
(***************************************************************************)
MaxDim == 2
MaxOffset == 1

(***************************************************************************)
(* Rational numbers, [n |-> numerator, d |-> denominator > 0]: arithmetic  *)
(* without rounding, on which the doubles below are built.                 *)
(***************************************************************************)
Abs(a) == IF a < 0 THEN 0 - a ELSE a

RECURSIVE GCD(_, _)
GCD(a, b) == IF b = 0 THEN a ELSE GCD(b, a % b)

Rat(n, d) ==
  LET g == GCD(Abs(n), Abs(d))
      s == IF d < 0 THEN 0 - 1 ELSE 1
  IN  [n |-> (s * n) \div g, d |-> (s * d) \div g]

RInt(i) == [n |-> i, d |-> 1]
RAdd(a, b) == Rat(a.n * b.d + b.n * a.d, a.d * b.d)
RNeg(a) == [n |-> 0 - a.n, d |-> a.d]
RSub(a, b) == RAdd(a, RNeg(b))
RMul(a, b) == Rat(a.n * b.n, a.d * b.d)
RDiv(a, b) == Rat(a.n * b.d, a.d * b.n)
RLe(a, b) == a.n * b.d <= b.n * a.d
RLt(a, b) == a.n * b.d < b.n * a.d
RFloor(a) == a.n \div a.d

(***************************************************************************)
(* Doubles.  A JavaScript number is kept as the rational n/d that the      *)
(* computation gives without rounding, together with the deviation of the  *)
(* double from it, (bn/bd) * 2^x with bn and bd odd:                       *)
(*     [n, d]             stands for the double n/d                        *)
(*     [n, d, bn, bd, x]  stands for the double n/d + (bn/bd) * 2^x        *)
(* A deviation is a few units in the last place of n/d.  The doubles of    *)
(* the model are below 2^53 in magnitude and far above the subnormals.     *)
(***************************************************************************)
\* the number of fraction bits of a double
Precision == 52

Sgn(i) == IF i > 0 THEN 1 ELSE IF i < 0 THEN 0 - 1 ELSE 0

\* the powers of two that are 32-bit integers
Pow2s ==
  << 1, 2, 4, 8, 16, 32, 64, 128, 256, 512, 1024, 2048, 4096, 8192, 16384,
     32768, 65536, 131072, 262144, 524288, 1048576, 2097152, 4194304,
     8388608, 16777216, 33554432, 67108864, 134217728, 268435456,
     536870912, 1073741824 >>

Pow2(k) == Pow2s[k + 1]

Pow2Set == { Pow2s[k] : k \in 1 .. Len(Pow2s) }

IsPow2(i) == i \in Pow2Set

\* 2^k modulo m
RECURSIVE Pow2Mod(_, _)
Pow2Mod(k, m) == IF k <= 10 THEN Pow2(k) % m ELSE (1024 * Pow2Mod(k - 10, m)) % m

\* the rational r * 2^j
Shift(r, j) ==
  IF r.n = 0 THEN r
  ELSE Rat(r.n * Pow2(IF j > 0 THEN j ELSE 0), r.d * Pow2(IF j < 0 THEN 0 - j ELSE 0))

\* the two parts of a number: n/d, and the deviation b * 2^x
Exact(v) == "bn" \notin DOMAIN v
Nom(v) == [n |-> v.n, d |-> v.d]
NoDev == [b |-> RInt(0), x |-> 0]
Dev(v) == IF Exact(v) THEN NoDev ELSE [b |-> [n |-> v.bn, d |-> v.bd], x |-> v.x]

\* the number a + (bn/bd) * 2^x, bn # 0, written with an odd bn and an odd bd
RECURSIVE Odd(_, _, _, _)
Odd(a, bn, bd, x) ==
  IF bn % 2 = 0 THEN Odd(a, bn \div 2, bd, x + 1)
  ELSE IF bd % 2 = 0 THEN Odd(a, bn, bd \div 2, x - 1)
  ELSE [n |-> a.n, d |-> a.d, bn |-> bn, bd |-> bd, x |-> x]

\* the number a + p.b * 2^(p.x)
Mk(a, p) == IF p.b.n = 0 THEN a ELSE Odd(a, p.b.n, p.b.d, p.x)

\* the deviation p + q, written with the exponent m, the lower of the two
DevAt(p, q, m) ==
  [b |-> Rat(p.b.n * Pow2(p.x - m) * q.b.d + q.b.n * Pow2(q.x - m) * p.b.d,
             p.b.d * q.b.d),
   x |-> m]

DevSum(p, q) ==
  IF p.b.n = 0 THEN q
  ELSE IF q.b.n = 0 THEN p
  ELSE DevAt(p, q, IF p.x <= q.x THEN p.x ELSE q.x)

DevTimes(p, r) == IF p.b.n = 0 THEN p ELSE [b |-> RMul(p.b, r), x |-> p.x]

DevOver(p, r) == IF p.b.n = 0 THEN p ELSE [b |-> RDiv(p.b, r), x |-> p.x]

\* arithmetic on the values of doubles without rounding (the real sum,
\* difference, product with a rational), in which the properties are stated
XAdd(a, b) == Mk(RAdd(Nom(a), Nom(b)), DevSum(Dev(a), Dev(b)))
XNeg(a) ==
  IF Exact(a) THEN RNeg(a) ELSE [a EXCEPT !.n = 0 - a.n, !.bn = 0 - a.bn]
XSub(a, b) == XAdd(a, XNeg(b))
XTimes(a, r) == Mk(RMul(Nom(a), r), DevTimes(Dev(a), r))
Sign(v) == IF v.n # 0 THEN Sgn(v.n) ELSE IF Exact(v) THEN 0 ELSE Sgn(v.bn)
XLe(a, b) == IF Exact(a) /\ Exact(b) THEN RLe(a, b) ELSE Sign(XSub(a, b)) <= 0
XLt(a, b) == IF Exact(a) /\ Exact(b) THEN RLt(a, b) ELSE Sign(XSub(a, b)) < 0
XAbs(a) == IF Sign(a) < 0 THEN XNeg(a) ELSE a

\* the number r * 2^(-k), r rational: a bound on a rounding error
Ulps(r, k) == Mk(RInt(0), [b |-> r, x |-> 0 - k])

\* floor(log2(n/d)) of a positive rational
RECURSIVE Log2Up(_, _, _)
Log2Up(n, d, e) == IF n >= 2 * d THEN Log2Up(n, 2 * d, e + 1) ELSE e
RECURSIVE Log2Down(_, _, _)
Log2Down(n, d, e) == IF n < d THEN Log2Down(2 * n, d, e - 1) ELSE e
FloorLog2(n, d) == IF n >= d THEN Log2Up(n, d, 0) ELSE Log2Down(n, d, 0)

IsPowerOfTwo(n, d) == (n = 1 /\ IsPow2(d)) \/ (d = 1 /\ IsPow2(n))

\* Rounding to the nearest double, ties to even, of the real number
\* a + p.b * 2^(p.x) + e, where e has the sign of tie and is smaller than any
\* deviation.  With 2^e0 <= |a| < 2^(e0+1) the doubles about the number are
\* the multiples of 2^(-k), k = Precision - e0 (one binade lower when |a| is
\* a power of two and the number lies below it).  In units of 2^(-k) the
\* number is q + u with q = floor(|a| * 2^k) and u = rho/d + l * 2^(p.x + k),
\* l being p.b with the sign of a; of q only the parity is needed, so that
\* |a| * 2^k is computed modulo 2d: r = 2^k * n mod 2d = (q mod 2) * d + rho.
Grid(n, d, below) ==
  Precision - (IF below /\ IsPowerOfTwo(n, d) THEN FloorLog2(n, d) - 1 ELSE FloorLog2(n, d))

Residue(n, d, k) == ((n % (2 * d)) * Pow2Mod(k, 2 * d)) % (2 * d)

\* whether the fraction fn/fd of a grid step is rounded up
Up(fn, fd, t, odd) ==
  IF 2 * fn > fd THEN 1
  ELSE IF 2 * fn < fd THEN 0
  ELSE IF t # 0 THEN (IF t > 0 THEN 1 ELSE 0)
  ELSE IF odd THEN 1 ELSE 0

Nearest(a, sg, k, r, u, t) ==
  Mk(a, [b |-> Rat(sg * ((RFloor(u) + Up(u.n % u.d, u.d, t,
                                         ((r \div a.d) + RFloor(u)) % 2 = 1)) * a.d
                         - (r % a.d)), a.d),
         x |-> 0 - k])

\* a double with a short numerator, or zero, is the number itself
RoundValue(a, p, tie) ==
  IF a.n = 0 \/ (p.b.n = 0 /\ IsPow2(a.d)) THEN Mk(a, p)
  ELSE CHOOSE v \in
         { Nearest(a, Sgn(a.n), k, r, u, Sgn(a.n) * tie) :
             <<k, r, u>> \in
               { <<k, r, RAdd([n |-> r % a.d, d |-> a.d],
                             Shift([n |-> Sgn(a.n) * p.b.n, d |-> p.b.d], p.x + k))>> :
                   <<k, r>> \in
                     { <<k, Residue(Abs(a.n), a.d, k)>> :
                         k \in { Grid(Abs(a.n), a.d,
                                      Sgn(a.n) * p.b.n < 0
                                        \/ (p.b.n = 0 /\ Sgn(a.n) * tie < 0)) } } } } : TRUE

Round(a, p, tie) ==
  CHOOSE v \in { RoundValue(x, y, tie) : x \in {a}, y \in {p} } : TRUE

\* the double nearest to a rational: the double a decimal numeral denotes
\* (parseFloat of a slider's value, a number literal), and the result of an
\* operation on doubles that are short rationals themselves; a rational with
\* a short numerator over a power of two is a double
Dbl(r) ==
  CHOOSE v \in { IF IsPow2(x.d) THEN x ELSE RoundValue(x, NoDev, 0) : x \in {r} } : TRUE

\* the operations on doubles x and y that are values already
Sum(x, y) ==
  IF Exact(x) /\ Exact(y) THEN Dbl(RAdd(x, y))
  ELSE Round(RAdd(Nom(x), Nom(y)), DevSum(Dev(x), Dev(y)), 0)

Product(x, y) ==
  IF Exact(x) /\ Exact(y) THEN Dbl(RMul(x, y))
  ELSE Round(RMul(Nom(x), Nom(y)),
             DevSum(DevTimes(Dev(x), Nom(y)), DevTimes(Dev(y), Nom(x))),
             Sgn(Dev(x).b.n) * Sgn(Dev(y).b.n))

\* every divisor in the source is an integer
Quotient(x, y) ==
  IF Exact(x) THEN Dbl(RDiv(x, y))
  ELSE Round(RDiv(Nom(x), y), DevOver(Dev(x), y), 0)

Difference(x, y) == Sum(x, XNeg(y))
Smaller(x, y) == IF XLe(x, y) THEN x ELSE y
Larger(x, y) == IF XLe(x, y) THEN y ELSE x

\* The operations of the source on two numbers: the operands are evaluated,
\* then the operation is applied to their values.
\* -a
FNeg(a) == XNeg(a)

\* a + b
FAdd(a, b) == CHOOSE v \in { Sum(x, y) : x \in {a}, y \in {b} } : TRUE

\* a - b
FSub(a, b) == CHOOSE v \in { Difference(x, y) : x \in {a}, y \in {b} } : TRUE

\* a * b
FMul(a, b) == CHOOSE v \in { Product(x, y) : x \in {a}, y \in {b} } : TRUE

\* a / b
FDiv(a, b) == CHOOSE v \in { Quotient(x, y) : x \in {a}, y \in {b} } : TRUE

\* a / 2
FHalf(a) == FDiv(a, RInt(2))

\* a faulty Math.max: the smaller of the two
FMin(a, b) == CHOOSE v \in { Smaller(x, y) : x \in {a}, y \in {b} } : TRUE

\* Math.max(a, b)
FMax(a, b) == CHOOSE v \in { Larger(x, y) : x \in {a}, y \in {b} } : TRUE

(***************************************************************************)
(* Images.  An HTMLImageElement is read by the compositor through          *)
(* naturalWidth/naturalHeight and width/height; 0 stands for any falsy     *)
(* value (0 or undefined).  A bitmap is present exactly when the natural   *)
(* size is positive.  alpha names the transparency pattern of the bitmap.  *)
(* An element without a bitmap has not loaded anything (yet), or its load  *)
(* has failed and it is in the broken state.                               *)
(***************************************************************************)
Image(id, nw, nh, w, h, alpha) ==
  [id |-> id, naturalWidth |-> nw, naturalHeight |-> nh,
   width |-> w, height |-> h, alpha |-> alpha, broken |-> FALSE]

\* the element after its load has failed: it is in the broken state
Broken(img) == [img EXCEPT !.broken = TRUE]

HasBitmap(img) == img.naturalWidth > 0 /\ img.naturalHeight > 0

\* transparency of source pixel (u, v) of an image
AlphaAt(img, u, v) ==
  CASE img.alpha = "opaque" -> "opaque"
    [] img.alpha = "cutout" ->
         IF u = 0 /\ v = 0 THEN "clear"
         ELSE IF u = 1 /\ v = 0 THEN "semi" ELSE "opaque"
    [] OTHER -> "clear"

(***************************************************************************)
(* Surface: a canvas element together with its 2d context.                 *)
(*   layers - what has been drawn since the bitmap was last emptied        *)
(*   ctm    - current transform: translation (tx, ty) and rotation (deg)   *)
(*   stack  - the context's saved states                                   *)
(***************************************************************************)
Identity == [tx |-> RInt(0), ty |-> RInt(0), rot |-> 0]

FreshSurface ==
  [width |-> 300, height |-> 150, layers |-> <<>>, ctm |-> Identity, stack |-> <<>>]

\* canvas.width = w : resizing empties the bitmap and resets the context
SetWidth(s, w) ==
  [s EXCEPT !.width = w, !.layers = <<>>, !.ctm = Identity, !.stack = <<>>]

\* canvas.height = h
SetHeight(s, h) ==
  [s EXCEPT !.height = h, !.layers = <<>>, !.ctm = Identity, !.stack = <<>>]

\* sines and cosines are kept to four decimal places, as integers over
\* TrigScale; they are exact at the multiples of 90 degrees
TrigScale == 10000

\* TrigScale * sin(d degrees) for d = 0 .. 90, at index d + 1
SinTable ==
  << 0, 175, 349, 523, 698, 872, 1045, 1219, 1392, 1564,
     1736, 1908, 2079, 2250, 2419, 2588, 2756, 2924, 3090, 3256,
     3420, 3584, 3746, 3907, 4067, 4226, 4384, 4540, 4695, 4848,
     5000, 5150, 5299, 5446, 5592, 5736, 5878, 6018, 6157, 6293,
     6428, 6561, 6691, 6820, 6947, 7071, 7193, 7314, 7431, 7547,
     7660, 7771, 7880, 7986, 8090, 8192, 8290, 8387, 8480, 8572,
     8660, 8746, 8829, 8910, 8988, 9063, 9135, 9205, 9272, 9336,
     9397, 9455, 9511, 9563, 9613, 9659, 9703, 9744, 9781, 9816,
     9848, 9877, 9903, 9925, 9945, 9962, 9976, 9986, 9994, 9998,
     10000 >>

\* TrigScale * Math.sin(deg * Math.PI / 180)
Sin(deg) ==
  LET d == deg % 360
  IN  IF d <= 90 THEN SinTable[d + 1]
      ELSE IF d <= 180 THEN SinTable[180 - d + 1]
      ELSE IF d <= 270 THEN 0 - SinTable[d - 180 + 1]
      ELSE 0 - SinTable[360 - d + 1]

\* TrigScale * Math.cos(deg * Math.PI / 180)
Cos(deg) == Sin(deg + 90)

\* the vector (x, y) rotated by deg degrees as ctx.rotate does it (the canvas
\* y axis points down): (x cos - y sin, x sin + y cos)
RotVec(deg, x, y) ==
  LET c == Cos(deg)
      s == Sin(deg)
  IN  << Rat(x.n * y.d * c - y.n * x.d * s, x.d * y.d * TrigScale),
         Rat(x.n * y.d * s + y.n * x.d * c, x.d * y.d * TrigScale) >>

\* ctx.clearRect(x, y, w, h)
ClearRect(s, x, y, w, h) ==
  IF /\ s.ctm = Identity
     /\ RLe(x, RInt(0)) /\ RLe(y, RInt(0))
     /\ RLe(RInt(s.width), RAdd(x, w)) /\ RLe(RInt(s.height), RAdd(y, h))
  THEN [s EXCEPT !.layers = <<>>]
  ELSE [s EXCEPT !.layers = Append(@,
          [kind |-> "clear", ctm |-> s.ctm, dx |-> x, dy |-> y, dw |-> w, dh |-> h])]

\* ctx.save()
Save(s) == [s EXCEPT !.stack = Append(@, s.ctm)]

\* ctx.restore()
Restore(s) ==
  IF s.stack = <<>> THEN s
  ELSE [s EXCEPT !.ctm = s.stack[Len(s.stack)],
                 !.stack = SubSeq(s.stack, 1, Len(s.stack) - 1)]

\* ctx.translate(x, y)
Translate(s, x, y) ==
  LET v == IF s.ctm.rot % 360 = 0 THEN <<x, y>> ELSE RotVec(s.ctm.rot, x, y)
  IN  [s EXCEPT !.ctm.tx = FAdd(@, v[1]), !.ctm.ty = FAdd(@, v[2])]

\* ctx.rotate(deg * PI / 180)
Rotate(s, deg) == [s EXCEPT !.ctm.rot = (@ + deg) % 360]

\* ctx.drawImage(img, ...) throws InvalidStateError for an element in the
\* broken state
DrawImageThrows(img) == img.broken

\* ctx.drawImage(img, dx, dy, dw, dh) when it does not throw: an image
\* without a bitmap, or an empty destination rectangle, draws nothing
DrawImage(s, img, dx, dy, dw, dh) ==
  IF ~HasBitmap(img) \/ dw.n = 0 \/ dh.n = 0 THEN s
  ELSE [s EXCEPT !.layers = Append(@,
          [kind |-> "draw", img |-> img, ctm |-> s.ctm,
           dx |-> dx, dy |-> dy, dw |-> dw, dh |-> dh])]

(***************************************************************************)
(* renderCompositeToCanvas                                                 *)
(***************************************************************************)
\* a destructured option with its default value
Opt(options, key, default) ==
  IF key \in DOMAIN options THEN options[key] ELSE default

\* a faulty reading of a dimension: attribute || natural
DimAttributeFirst(natural, attr) == IF attr # 0 THEN attr ELSE natural

\* natural || attribute
Dim(natural, attr) == IF natural # 0 THEN natural ELSE attr

\* a faulty guard: the frame's height is not looked at
InvalidDimensionsNoFrameHeight(frameWidth, frameHeight, profileWidth, profileHeight) ==
  frameWidth = 0 \/ profileWidth = 0 \/ profileHeight = 0

\* !frameWidth || !frameHeight || !profileWidth || !profileHeight
InvalidDimensions(frameWidth, frameHeight, profileWidth, profileHeight) ==
  frameWidth = 0 \/ frameHeight = 0 \/ profileWidth = 0 \/ profileHeight = 0

\* a faulty geometry: the profile is fitted to the canvas width alone
GeometryFitWidth(canvasWidth, canvasHeight, frameWidth, frameHeight, profileWidth, profileHeight, options) ==
  LET profileScale == Opt(options, "profileScale", RInt(1))
      frameScale == Opt(options, "frameScale", RInt(1))
      profileRotation == Opt(options, "profileRotation", 0)
      profileOffsetX == Opt(options, "profileOffsetX", 0)
      profileOffsetY == Opt(options, "profileOffsetY", 0)
  IN  CHOOSE geometry \in
        { [scaledFrameWidth |-> scaledFrameWidth,
           scaledFrameHeight |-> scaledFrameHeight,
           baseProfileScale |-> baseProfileScale,
           finalProfileWidth |-> finalProfileWidth,
           finalProfileHeight |-> finalProfileHeight,
           baseProfileOffsetX |-> baseProfileOffsetX,
           baseProfileOffsetY |-> baseProfileOffsetY,
           profileCenterX |-> FAdd(FAdd(baseProfileOffsetX, FHalf(finalProfileWidth)),
                                  RInt(profileOffsetX)),
           profileCenterY |-> FAdd(FAdd(baseProfileOffsetY, FHalf(finalProfileHeight)),
                                  RInt(profileOffsetY)),
           rotationDegrees |-> profileRotation,
           frameOffsetX |-> FHalf(FSub(RInt(canvasWidth), scaledFrameWidth)),
           frameOffsetY |-> FHalf(FSub(RInt(canvasHeight), scaledFrameHeight))] :
            <<scaledFrameWidth, scaledFrameHeight, baseProfileScale,
              finalProfileWidth, finalProfileHeight,
              baseProfileOffsetX, baseProfileOffsetY>> \in
              { <<scaledFrameWidth, scaledFrameHeight, baseProfileScale,
                  finalProfileWidth, finalProfileHeight,
                  FHalf(FSub(RInt(canvasWidth), finalProfileWidth)),
                  FHalf(FSub(RInt(canvasHeight), finalProfileHeight))>> :
                  <<scaledFrameWidth, scaledFrameHeight, baseProfileScale,
                    finalProfileWidth, finalProfileHeight>> \in
                    { <<scaledFrameWidth, scaledFrameHeight, baseProfileScale,
                        FMul(FMul(RInt(profileWidth), baseProfileScale), profileScale),
                        FMul(FMul(RInt(profileHeight), baseProfileScale), profileScale)>> :
                        <<scaledFrameWidth, scaledFrameHeight, baseProfileScale>> \in
                          { <<FMul(RInt(frameWidth), frameScale),
                              FMul(RInt(frameHeight), frameScale),
                              FDiv(RInt(canvasWidth), RInt(profileWidth))>> } } } } : TRUE

\* placement geometry of one call, from the resized canvas, the profile size
\* and the options; each const of the source is computed once, in the order
\* of the source, from the values computed before it
Geometry(canvasWidth, canvasHeight, frameWidth, frameHeight, profileWidth, profileHeight, options) ==
  LET profileScale == Opt(options, "profileScale", RInt(1))
      frameScale == Opt(options, "frameScale", RInt(1))
      profileRotation == Opt(options, "profileRotation", 0)
      profileOffsetX == Opt(options, "profileOffsetX", 0)
      profileOffsetY == Opt(options, "profileOffsetY", 0)
  IN  CHOOSE geometry \in
        { [scaledFrameWidth |-> scaledFrameWidth,
           scaledFrameHeight |-> scaledFrameHeight,
           baseProfileScale |-> baseProfileScale,
           finalProfileWidth |-> finalProfileWidth,
           finalProfileHeight |-> finalProfileHeight,
           baseProfileOffsetX |-> baseProfileOffsetX,
           baseProfileOffsetY |-> baseProfileOffsetY,
           profileCenterX |-> FAdd(FAdd(baseProfileOffsetX, FHalf(finalProfileWidth)),
                                  RInt(profileOffsetX)),
           profileCenterY |-> FAdd(FAdd(baseProfileOffsetY, FHalf(finalProfileHeight)),
                                  RInt(profileOffsetY)),
           rotationDegrees |-> profileRotation,
           frameOffsetX |-> FHalf(FSub(RInt(canvasWidth), scaledFrameWidth)),
           frameOffsetY |-> FHalf(FSub(RInt(canvasHeight), scaledFrameHeight))] :
            <<scaledFrameWidth, scaledFrameHeight, baseProfileScale,
              finalProfileWidth, finalProfileHeight,
              baseProfileOffsetX, baseProfileOffsetY>> \in
              { <<scaledFrameWidth, scaledFrameHeight, baseProfileScale,
                  finalProfileWidth, finalProfileHeight,
                  FHalf(FSub(RInt(canvasWidth), finalProfileWidth)),
                  FHalf(FSub(RInt(canvasHeight), finalProfileHeight))>> :
                  <<scaledFrameWidth, scaledFrameHeight, baseProfileScale,
                    finalProfileWidth, finalProfileHeight>> \in
                    { <<scaledFrameWidth, scaledFrameHeight, baseProfileScale,
                        FMul(FMul(RInt(profileWidth), baseProfileScale), profileScale),
                        FMul(FMul(RInt(profileHeight), baseProfileScale), profileScale)>> :
                        <<scaledFrameWidth, scaledFrameHeight, baseProfileScale>> \in
                          { <<FMul(RInt(frameWidth), frameScale),
                              FMul(RInt(frameHeight), frameScale),
                              FMax(FDiv(RInt(canvasWidth), RInt(profileWidth)),
                                   FDiv(RInt(canvasHeight), RInt(profileHeight)))>> } } } } : TRUE

\* the drawing operations end with an exception: the surface is as the
\* operations before the throwing one left it, which is the n-th of ops
Thrown(s, ops, n) == [surface |-> s, ops |-> SubSeq(ops, 1, n), threw |-> TRUE]

\* the drawing operations have all returned
Painted(s, ops) == [surface |-> s, ops |-> ops, threw |-> FALSE]

\* a faulty drawing sequence: the frame is drawn before the profile
PaintFrameFirst(s, profile, frame, g) ==
  LET s1 == ClearRect(s, RInt(0), RInt(0), RInt(s.width), RInt(s.height))
      s2 == DrawImage(s1, frame, g.frameOffsetX, g.frameOffsetY,
                      g.scaledFrameWidth, g.scaledFrameHeight)
      s3 == Save(s2)
      s4 == Translate(s3, g.profileCenterX, g.profileCenterY)
      s5 == Rotate(s4, g.rotationDegrees)
      s6 == DrawImage(s5, profile,
                      FNeg(FHalf(g.finalProfileWidth)), FNeg(FHalf(g.finalProfileHeight)),
                      g.finalProfileWidth, g.finalProfileHeight)
      s7 == Restore(s6)
      ops == << <<"clearRect", RInt(0), RInt(0), RInt(s.width), RInt(s.height)>>,
              <<"drawImage", frame.id, g.frameOffsetX, g.frameOffsetY,
                g.scaledFrameWidth, g.scaledFrameHeight>>,
              <<"save">>,
              <<"translate", g.profileCenterX, g.profileCenterY>>,
              <<"rotate", g.rotationDegrees>>,
              <<"drawImage", profile.id,
                FNeg(FHalf(g.finalProfileWidth)), FNeg(FHalf(g.finalProfileHeight)),
                g.finalProfileWidth, g.finalProfileHeight>>,
              <<"restore">> >>
  IN  IF DrawImageThrows(frame) THEN Thrown(s1, ops, 2)
      ELSE IF DrawImageThrows(profile) THEN Thrown(s5, ops, 6)
      ELSE Painted(s7, ops)

\* a faulty drawing sequence: the frame is not drawn
PaintProfileOnly(s, profile, frame, g) ==
  LET s1 == ClearRect(s, RInt(0), RInt(0), RInt(s.width), RInt(s.height))
      s2 == Save(s1)
      s3 == Translate(s2, g.profileCenterX, g.profileCenterY)
      s4 == Rotate(s3, g.rotationDegrees)
      s5 == DrawImage(s4, profile,
                      FNeg(FHalf(g.finalProfileWidth)), FNeg(FHalf(g.finalProfileHeight)),
                      g.finalProfileWidth, g.finalProfileHeight)
      s6 == Restore(s5)
      ops == << <<"clearRect", RInt(0), RInt(0), RInt(s.width), RInt(s.height)>>,
              <<"save">>,
              <<"translate", g.profileCenterX, g.profileCenterY>>,
              <<"rotate", g.rotationDegrees>>,
              <<"drawImage", profile.id,
                FNeg(FHalf(g.finalProfileWidth)), FNeg(FHalf(g.finalProfileHeight)),
                g.finalProfileWidth, g.finalProfileHeight>>,
              <<"restore">> >>
  IN  IF DrawImageThrows(profile) THEN Thrown(s4, ops, 5)
      ELSE Painted(s6, ops)

\* a faulty drawing sequence: the context is rotated before it is moved
PaintRotateFirst(s, profile, frame, g) ==
  LET s1 == ClearRect(s, RInt(0), RInt(0), RInt(s.width), RInt(s.height))
      s2 == Save(s1)
      s3 == Rotate(s2, g.rotationDegrees)
      s4 == Translate(s3, g.profileCenterX, g.profileCenterY)
      s5 == DrawImage(s4, profile,
                      FNeg(FHalf(g.finalProfileWidth)), FNeg(FHalf(g.finalProfileHeight)),
                      g.finalProfileWidth, g.finalProfileHeight)
      s6 == Restore(s5)
      s7 == DrawImage(s6, frame, g.frameOffsetX, g.frameOffsetY,
                      g.scaledFrameWidth, g.scaledFrameHeight)
      ops == << <<"clearRect", RInt(0), RInt(0), RInt(s.width), RInt(s.height)>>,
              <<"save">>,
              <<"rotate", g.rotationDegrees>>,
              <<"translate", g.profileCenterX, g.profileCenterY>>,
              <<"drawImage", profile.id,
                FNeg(FHalf(g.finalProfileWidth)), FNeg(FHalf(g.finalProfileHeight)),
                g.finalProfileWidth, g.finalProfileHeight>>,
              <<"restore">>,
              <<"drawImage", frame.id, g.frameOffsetX, g.frameOffsetY,
                g.scaledFrameWidth, g.scaledFrameHeight>> >>
  IN  IF DrawImageThrows(profile) THEN Thrown(s4, ops, 5)
      ELSE IF DrawImageThrows(frame) THEN Thrown(s6, ops, 7)
      ELSE Painted(s7, ops)

\* a faulty drawing sequence: the frame is drawn before the context is restored
PaintFrameTransformed(s, profile, frame, g) ==
  LET s1 == ClearRect(s, RInt(0), RInt(0), RInt(s.width), RInt(s.height))
      s2 == Save(s1)
      s3 == Translate(s2, g.profileCenterX, g.profileCenterY)
      s4 == Rotate(s3, g.rotationDegrees)
      s5 == DrawImage(s4, profile,
                      FNeg(FHalf(g.finalProfileWidth)), FNeg(FHalf(g.finalProfileHeight)),
                      g.finalProfileWidth, g.finalProfileHeight)
      s6 == DrawImage(s5, frame, g.frameOffsetX, g.frameOffsetY,
                      g.scaledFrameWidth, g.scaledFrameHeight)
      s7 == Restore(s6)
      ops == << <<"clearRect", RInt(0), RInt(0), RInt(s.width), RInt(s.height)>>,
              <<"save">>,
              <<"translate", g.profileCenterX, g.profileCenterY>>,
              <<"rotate", g.rotationDegrees>>,
              <<"drawImage", profile.id,
                FNeg(FHalf(g.finalProfileWidth)), FNeg(FHalf(g.finalProfileHeight)),
                g.finalProfileWidth, g.finalProfileHeight>>,
              <<"drawImage", frame.id, g.frameOffsetX, g.frameOffsetY,
                g.scaledFrameWidth, g.scaledFrameHeight>>,
              <<"restore">> >>
  IN  IF DrawImageThrows(profile) THEN Thrown(s4, ops, 5)
      ELSE IF DrawImageThrows(frame) THEN Thrown(s5, ops, 6)
      ELSE Painted(s7, ops)

\* the drawing operations of one call (clear, profile under its own
\* transform, frame), with the log of the operations issued on the context
Paint(s, profile, frame, g) ==
  LET s1 == ClearRect(s, RInt(0), RInt(0), RInt(s.width), RInt(s.height))
      s2 == Save(s1)
      s3 == Translate(s2, g.profileCenterX, g.profileCenterY)
      s4 == Rotate(s3, g.rotationDegrees)
      s5 == DrawImage(s4, profile,
                      FNeg(FHalf(g.finalProfileWidth)), FNeg(FHalf(g.finalProfileHeight)),
                      g.finalProfileWidth, g.finalProfileHeight)
      s6 == Restore(s5)
      s7 == DrawImage(s6, frame, g.frameOffsetX, g.frameOffsetY,
                      g.scaledFrameWidth, g.scaledFrameHeight)
      ops == << <<"clearRect", RInt(0), RInt(0), RInt(s.width), RInt(s.height)>>,
              <<"save">>,
              <<"translate", g.profileCenterX, g.profileCenterY>>,
              <<"rotate", g.rotationDegrees>>,
              <<"drawImage", profile.id,
                FNeg(FHalf(g.finalProfileWidth)), FNeg(FHalf(g.finalProfileHeight)),
                g.finalProfileWidth, g.finalProfileHeight>>,
              <<"restore">>,
              <<"drawImage", frame.id, g.frameOffsetX, g.frameOffsetY,
                g.scaledFrameWidth, g.scaledFrameHeight>> >>
  IN  IF DrawImageThrows(profile) THEN Thrown(s4, ops, 5)
      ELSE IF DrawImageThrows(frame) THEN Thrown(s6, ops, 7)
      ELSE Painted(s7, ops)

\* the canvas after the two size assignments
Resize(canvas, frameWidth, frameHeight) ==
  SetHeight(SetWidth(canvas, frameWidth), frameHeight)

\* renderCompositeToCanvas returns normally once the two images are painted;
\* an exception of drawImage leaves it as it is
Returned(painted) ==
  [threw |-> painted.threw,
   error |-> IF painted.threw THEN "InvalidStateError" ELSE "",
   surface |-> painted.surface, ops |-> painted.ops]

\* a faulty compositor: when the canvas already has the frame's size it is
\* neither resized nor cleared, and the new layers go over the old ones
renderOverPrevious(canvas, profile, frame, options) ==
  LET frameWidth == Dim(frame.naturalWidth, frame.width)
      frameHeight == Dim(frame.naturalHeight, frame.height)
      profileWidth == Dim(profile.naturalWidth, profile.width)
      profileHeight == Dim(profile.naturalHeight, profile.height)
  IN  IF InvalidDimensions(frameWidth, frameHeight, profileWidth, profileHeight)
      THEN [threw |-> TRUE, error |-> "Invalid image dimensions",
            surface |-> canvas, ops |-> <<>>]
      ELSE CHOOSE returned \in
             { Returned(IF canvas.width = frameWidth /\ canvas.height = frameHeight
                        THEN [painted EXCEPT !.surface.layers = canvas.layers \o @]
                        ELSE painted) :
                 painted \in
                   { Paint(sized, profile, frame, g) :
                       <<sized, g>> \in
                         { <<sized, Geometry(sized.width, sized.height, frameWidth,
                                             frameHeight, profileWidth, profileHeight,
                                             options)>> :
                             sized \in {Resize(canvas, frameWidth, frameHeight)} } } } : TRUE

\* renderCompositeToCanvas(canvas, ctx, profile, frame, options): the result
\* is whether it threw, the surface afterwards and the context operations
renderCompositeToCanvas(canvas, profile, frame, options) ==
  LET frameWidth == Dim(frame.naturalWidth, frame.width)
      frameHeight == Dim(frame.naturalHeight, frame.height)
      profileWidth == Dim(profile.naturalWidth, profile.width)
      profileHeight == Dim(profile.naturalHeight, profile.height)
  IN  IF InvalidDimensions(frameWidth, frameHeight, profileWidth, profileHeight)
      THEN [threw |-> TRUE, error |-> "Invalid image dimensions",
            surface |-> canvas, ops |-> <<>>]
      ELSE CHOOSE returned \in
             { Returned(Paint(sized, profile, frame, g)) :
                 <<sized, g>> \in
                   { <<sized, Geometry(sized.width, sized.height, frameWidth, frameHeight,
                                       profileWidth, profileHeight, options)>> :
                       sized \in {Resize(canvas, frameWidth, frameHeight)} } } : TRUE


(***************************************************************************)
(* Reading a surface.  The canvas pixel (x, y) is the square from (x, y)   *)
(* to (x + 1, y + 1).  drawImage leaves the rasterising to the browser,    *)
(* which filters an image that is scaled or not aligned with the pixel     *)
(* grid (imageSmoothingEnabled is true and the source never changes it)    *)
(* and decides by rounding or antialiasing what a pixel at the edge of the *)
(* destination rectangle receives.  Of a layer at a pixel the model keeps  *)
(* what holds of every such rasteriser:                                    *)
(*   cover - "full": the pixel lies within the destination rectangle;      *)
(*           "none": it lies outside (touching at most its edge);          *)
(*           "partial": the rectangle's edge crosses it, and the layer     *)
(*           gives the pixel anything from nothing to its colour there     *)
(*   src   - the source pixels whose colours the filter can mix into the   *)
(*           pixel; the one source pixel copied when the layer is drawn at *)
(*           natural size on the pixel grid, turned by a multiple of 90    *)
(*           degrees                                                       *)
(*   alpha - "opaque", "semi" or "clear" when every colour the layer can   *)
(*           give the pixel is so, "mixed" when that is not determined,    *)
(*           "erase" for clearRect                                         *)
(* The value of a pixel is the stack of what the layers give it, topmost   *)
(* first: source-over compositing of one colour per entry, each a mix of   *)
(* the source pixels in src; an opaque entry hides what is below it, a     *)
(* clear one adds nothing; <<>> is transparent black.  The edges of a      *)
(* layer are taken at n/d of the doubles that place it: the deviation of a *)
(* rounding is below the resolution of a rasteriser.                       *)
(***************************************************************************)
\* what one layer gives the canvas pixel (x, y)
LayerSample(layer, x, y) ==
  LET \* the four corners of the pixel in the coordinates the layer is drawn in
      corners == { RotVec(360 - layer.ctm.rot, RSub(RInt(cx), Nom(layer.ctm.tx)),
                                               RSub(RInt(cy), Nom(layer.ctm.ty))) :
                     cx \in {x, x + 1}, cy \in {y, y + 1} }
      Least(S) == CHOOSE a \in S : \A b \in S : RLe(a, b)
      Greatest(S) == CHOOSE a \in S : \A b \in S : RLe(b, a)
      x0 == Least({ q[1] : q \in corners })
      x1 == Greatest({ q[1] : q \in corners })
      y0 == Least({ q[2] : q \in corners })
      y1 == Greatest({ q[2] : q \in corners })
      \* sines and cosines of other angles than the multiples of 90 degrees are
      \* approximate: a corner that close to an edge is on neither side of it
      slack == IF layer.ctm.rot % 90 = 0 THEN RInt(0) ELSE Rat(1, 100)
      left == Nom(layer.dx)
      right == RAdd(Nom(layer.dx), Nom(layer.dw))
      top == Nom(layer.dy)
      bottom == RAdd(Nom(layer.dy), Nom(layer.dh))
      cover == IF /\ RLe(RAdd(left, slack), x0) /\ RLe(x1, RSub(right, slack))
                  /\ RLe(RAdd(top, slack), y0) /\ RLe(y1, RSub(bottom, slack))
               THEN "full"
               ELSE IF \/ RLe(x1, RSub(left, slack)) \/ RLe(RAdd(right, slack), x0)
                       \/ RLe(y1, RSub(top, slack)) \/ RLe(RAdd(bottom, slack), y0)
               THEN "none"
               ELSE "partial"
  IN  IF cover = "none" THEN [cover |-> "none", alpha |-> "clear", src |-> {}]
      ELSE IF layer.kind = "clear" THEN [cover |-> cover, alpha |-> "erase", src |-> {}]
      ELSE LET w == layer.img.naturalWidth
               h == layer.img.naturalHeight
               \* a copy, pixel for pixel
               copied == /\ layer.ctm.rot % 90 = 0
                         /\ Nom(layer.dw) = RInt(w) /\ Nom(layer.dh) = RInt(h)
                         /\ RSub(x0, left).d = 1 /\ RSub(y0, top).d = 1
               \* the source pixels, of n in a row drawn over the length d, that
               \* a filter can reach from the stretch lo .. hi of the
               \* destination: those under the stretch and, at either side, one
               \* more for the interpolation and those under two more
               \* destination pixels for the rounding of the edges and the
               \* averaging of a reduced image
               Reach(lo, hi, n, d) ==
                 LET scale == RDiv(RInt(n), d)
                     margin == RAdd(RInt(1), RMul(RInt(2), scale))
                 IN  { i \in 0 .. (n - 1) :
                         /\ RFloor(RSub(RMul(lo, scale), margin)) <= i
                         /\ i <= RFloor(RAdd(RMul(hi, scale), margin)) }
               us == IF copied THEN {RFloor(RSub(x0, left))}
                     ELSE Reach(RSub(x0, left), RSub(x1, left), w, Nom(layer.dw))
               vs == IF copied THEN {RFloor(RSub(y0, top))}
                     ELSE Reach(RSub(y0, top), RSub(y1, top), h, Nom(layer.dh))
               alphas == { AlphaAt(layer.img, u, v) : u \in us, v \in vs }
           IN  [cover |-> cover,
                alpha |-> IF alphas = {"clear"} THEN "clear"
                          ELSE IF cover = "partial" THEN "mixed"
                          ELSE IF alphas = {"opaque"} THEN "opaque"
                          ELSE IF alphas = {"semi"} THEN "semi"
                          ELSE "mixed",
                src |-> { <<layer.img.id, u, v>> : u \in us, v \in vs }]

\* the stack of the first k layers at the pixel (x, y)
RECURSIVE Visible(_, _, _, _)
Visible(layers, k, x, y) ==
  IF k = 0 THEN <<>>
  ELSE LET c == LayerSample(layers[k], x, y)
       IN  CASE c.alpha = "erase" /\ c.cover = "full" -> <<>>
             [] c.alpha = "opaque" -> <<c>>
             [] c.alpha = "clear" -> Visible(layers, k - 1, x, y)
             [] OTHER -> <<c>> \o Visible(layers, k - 1, x, y)

\* the pixel (x, y) of a surface, as toBlob reads it
PixelAt(s, x, y) == Visible(s.layers, Len(s.layers), x, y)

\* the whole bitmap of a surface
Bitmap(s) ==
  [p \in (0 .. s.width - 1) \X (0 .. s.height - 1) |-> PixelAt(s, p[1], p[2])]


(***************************************************************************)
(* State.                                                                  *)
(*   canvas - a surface its owner reuses for one render after another      *)
(*   last   - the most recent render call on canvas: its images, whether   *)
(*            the canvas held a composite already, whether the call threw, *)
(*            the context operations it issued                             *)
(*   done   - the arguments of the most recent render that returned        *)
(*            normally (<<>> before the first)                             *)
(*   input  - the arguments of a single call made on a fresh surface       *)
(*   calls  - the mergeImages calls, by call id                            *)
(*   urls   - the object-URL store: the live URLs and the next fresh one   *)
(*   app    - the App component: its state, refs and preview image loads   *)
(***************************************************************************)
VARIABLES canvas, last, done, input, calls, urls, app

vars == <<canvas, last, done, input, calls, urls, app>>

(***************************************************************************)
(* Inputs of the compositor.  The callers make their elements with         *)
(* new Image(), without width and height attributes, so an element whose   *)
(* load has failed has the natural and the attribute sizes 0.              *)
(***************************************************************************)
NoImage == Image("none", 0, 0, 0, 0, "none")

ProfileImages ==
  { Image("profile", 1, MaxDim, 1, MaxDim, "opaque"),
    Image("profile", MaxDim, 1, MaxDim, 1, "opaque"),
    Image("profile", MaxDim, MaxDim, MaxDim, MaxDim, "cutout"),
    Image("profile", 0, 0, 0, 0, "none"),
    Image("profile", 0, MaxDim, 0, MaxDim, "none"),
    Image("profile", MaxDim, 0, MaxDim, 0, "none"),
    Image("profile", 0, 0, 1, MaxDim, "none"),
    Broken(Image("profile", 0, 0, 0, 0, "none")) }

FrameImages ==
  { Image("frame", MaxDim, MaxDim, MaxDim, MaxDim, "cutout"),
    Image("frame", 1, MaxDim, 1, MaxDim, "opaque"),
    Image("frame", MaxDim, 1, MaxDim, 1, "cutout"),
    Image("frame", 0, 0, MaxDim, 1, "none"),
    Broken(Image("frame", 0, 0, 0, 0, "none")),
    Image("frame", 0, 0, 0, 0, "none"),
    Image("frame", 0, MaxDim, 0, MaxDim, "none"),
    Image("frame", MaxDim, 0, MaxDim, 0, "none") }

ProfileScales == {Rat(1, 2), RInt(1), Rat(3, 2)}
\* values a slider of step 0.01 gives
FrameScales == {Rat(1, 2), RInt(1), Dbl(Rat(6, 5))}
Rotations == {0, 45, 90, 180, 270}
Offsets == (0 - MaxOffset) .. MaxOffset

FullOptions ==
  [profileScale : ProfileScales, frameScale : FrameScales,
   profileRotation : Rotations, profileOffsetX : Offsets, profileOffsetY : Offsets]

\* callers may leave options out
PartialOptions ==
  { [k \in {} |-> 0], [profileScale |-> Rat(1, 2)],
    [frameScale |-> Rat(1, 2), profileRotation |-> 180] }

OptionSets == FullOptions \cup PartialOptions

\* the smaller input sets of the runs that render again and again
SeqProfiles ==
  { Image("profile", 1, MaxDim, 1, MaxDim, "opaque"),
    Image("profile", MaxDim, MaxDim, MaxDim, MaxDim, "cutout"),
    Image("profile", 0, MaxDim, 0, MaxDim, "none"),
    Broken(Image("profile", 0, 0, 0, 0, "none")) }

SeqFrames ==
  { Image("frame", MaxDim, MaxDim, MaxDim, MaxDim, "cutout"),
    Image("frame", 1, MaxDim, MaxDim, 1, "opaque"),
    Image("frame", 0, 0, MaxDim, 1, "none"),
    Broken(Image("frame", 0, 0, 0, 0, "none")),
    Image("frame", MaxDim, 0, MaxDim, 0, "none") }

SeqOptions ==
  [profileScale : {Rat(3, 2)}, frameScale : {Rat(1, 2), RInt(1)},
   profileRotation : {0, 90}, profileOffsetX : {MaxOffset}, profileOffsetY : {0}]
  \cup PartialOptions

(***************************************************************************)
(* A caller calls the compositor on the surface it owns.                   *)
(***************************************************************************)
Render(profile, frame, options) ==
  \E r \in {renderCompositeToCanvas(canvas, profile, frame, options)} :
      /\ canvas' = r.surface
      /\ last' = [called |-> TRUE, reused |-> done # <<>>,
                  threw |-> r.threw, error |-> r.error,
                  profile |-> profile, frame |-> frame, ops |-> r.ops]
      /\ done' = IF r.threw THEN done
                 ELSE << [profile |-> profile, frame |-> frame, options |-> options] >>
      /\ UNCHANGED <<input, calls, urls, app>>

\* one call on a fresh surface, with the arguments drawn at the start
RenderInput ==
  /\ ~last.called
  /\ Render(input.profile, input.frame, input.options)

InitSurface ==
  /\ canvas = FreshSurface
  /\ last = [called |-> FALSE, reused |-> FALSE, threw |-> FALSE, error |-> "",
             profile |-> NoImage, frame |-> NoImage, ops |-> <<>>]
  /\ done = <<>>

\* the parameters as useState initialises them
InitialParams ==
  [profileScale |-> RInt(1), frameScale |-> RInt(1), profileRotation |-> 0,
   profileOffsetX |-> 0, profileOffsetY |-> 0]

\* the App component after its first render: nothing selected (0 is the
\* empty string of a URL state), no canvas, no image loads
InitialApp ==
  [mounted |-> TRUE,
   profileImage |-> [kind |-> "none", image |-> NoImage],
   frameImage |-> [kind |-> "none", image |-> NoImage],
   profilePreview |-> 0, framePreview |-> 0, mergedImage |-> 0,
   isProcessing |-> FALSE,
   params |-> InitialParams,
   previewCanvas |-> <<>>,
   profileImageElementRef |-> <<>>, frameImageElementRef |-> <<>>,
   pairs |-> <<>>,
   created |-> {}, gens |-> <<>>, downloads |-> 0, events |-> 0, slides |-> 0,
   ev |-> [kind |-> "mount", run |-> 0, rendered |-> FALSE, installed |-> FALSE,
           flagAtCall |-> FALSE],
   lastRender |-> <<>>]

InitMerge ==
  /\ calls = <<>>
  /\ urls = [live |-> {}, next |-> 1]
  /\ app = InitialApp

NoInput == [profile |-> NoImage, frame |-> NoImage, options |-> [k \in {} |-> 0]]

\* renders on a reused surface
InitRender == InitSurface /\ InitMerge /\ input = NoInput

NextRender ==
  \E profile \in SeqProfiles, frame \in SeqFrames, options \in SeqOptions :
    Render(profile, frame, options)

SpecRender == InitRender /\ [][NextRender]_vars

\* the compositor as a function of its arguments
InitOnce ==
  /\ InitSurface /\ InitMerge
  /\ input \in [profile : ProfileImages, frame : FrameImages, options : OptionSets]

NextOnce == RenderInput

SpecOnce == InitOnce /\ [][NextOnce]_vars


(***************************************************************************)
(* Properties of the compositor.                                           *)
(***************************************************************************)
Pixels(s) == (0 .. s.width - 1) \X (0 .. s.height - 1)

\* the layers a surface holds of the image with the given id
LayersOf(s, id) == SelectSeq(s.layers, LAMBDA l : l.kind = "draw" /\ l.img.id = id)

\* what the frame, as drawn, has at pixel p (clear where it was not drawn)
FrameAt(s, p) ==
  LET fl == LayersOf(s, "frame")
  IN  IF fl = <<>> THEN [cover |-> "none", alpha |-> "clear", src |-> {}]
      ELSE LayerSample(fl[Len(fl)], p[1], p[2])

\* the pixel p of the surface holding the profile alone
ProfileAt(s, p) ==
  LET pl == LayersOf(s, "profile")
  IN  Visible(pl, Len(pl), p[1], p[2])

\* the names of the clearing and drawing operations of the last call, in order
DrawingOps ==
  LET d == SelectSeq(last.ops, LAMBDA o : o[1] \in {"clearRect", "drawImage"})
  IN  [i \in 1 .. Len(d) |-> IF d[i][1] = "clearRect" THEN "clear" ELSE d[i][2]]

\* C1: every call that returns issues clear, then the profile draw, then the
\* frame draw; wherever the frame as drawn is opaque the final pixel is the
\* frame's, wherever it is fully transparent the final pixel is the profile's
C1_DrawOrder ==
  (last.called /\ ~last.threw) =>
    /\ DrawingOps = <<"clear", "profile", "frame">>
    /\ \A p \in Pixels(canvas) :
         LET f == FrameAt(canvas, p)
         IN  /\ f.alpha = "opaque" => PixelAt(canvas, p[1], p[2]) = <<f>>
             /\ f.alpha = "clear" => PixelAt(canvas, p[1], p[2]) = ProfileAt(canvas, p)

\* a render in which the frame hides the profile at one pixel and lets it
\* through its cutout at another
C1_Witness ==
  /\ last.called /\ ~last.threw
  /\ \E p \in Pixels(canvas) :
       FrameAt(canvas, p).alpha = "opaque" /\ ProfileAt(canvas, p) # <<>>
  /\ \E p \in Pixels(canvas) :
       /\ FrameAt(canvas, p).cover = "full" /\ FrameAt(canvas, p).alpha = "clear"
       /\ ProfileAt(canvas, p) # <<>>

\* C2: after a render that returned, the surface has the natural size of
\* the frame of the most recent such render, whatever the profile and the
\* options were and whatever was rendered or failed before or since
C2_SizeIsFrameSize ==
  done # <<>> =>
    LET frame == done[1].frame
    IN  /\ canvas.width = (IF frame.naturalWidth # 0 THEN frame.naturalWidth ELSE frame.width)
        /\ canvas.height = (IF frame.naturalHeight # 0 THEN frame.naturalHeight ELSE frame.height)

\* a reused surface whose frame differs in size from the profile, from its
\* own attributes, and after which a call failed
C2_Witness ==
  /\ done # <<>> /\ last.threw
  /\ done[1].frame.naturalWidth # 0
  /\ done[1].frame.naturalWidth # done[1].frame.width
  /\ done[1].profile.naturalWidth # done[1].frame.naturalWidth

ZeroDimension(img) ==
  \/ (img.naturalWidth = 0 /\ img.width = 0)
  \/ (img.naturalHeight = 0 /\ img.height = 0)

\* C3: a call with an image whose width or height is zero or undefined
\* throws the invalid-dimensions error, issues no operation and leaves the
\* surface as it was
C3_InvalidDimensionsUntouched ==
  [][ (ZeroDimension(last'.profile) \/ ZeroDimension(last'.frame)) =>
        /\ last'.threw /\ last'.error = "Invalid image dimensions"
        /\ last'.ops = <<>>
        /\ canvas' = canvas ]_vars

\* a call that threw on a surface holding an earlier composite
C3_Witness ==
  /\ last.threw /\ ZeroDimension(last.profile) /\ ~ZeroDimension(last.frame)
  /\ canvas.layers # <<>>

\* C8: the reused surface has the size and the contents that the most
\* recent render that returned would give on a fresh surface
C8_Stateless ==
  done # <<>> =>
    LET alone == renderCompositeToCanvas(FreshSurface, done[1].profile,
                                         done[1].frame, done[1].options).surface
    IN  /\ canvas.width = alone.width /\ canvas.height = alone.height
        /\ Bitmap(canvas) = Bitmap(alone)
        /\ canvas = alone

\* a render that returned on a surface that held an earlier composite
C8_Witness ==
  /\ done # <<>> /\ last.reused /\ ~last.threw
  /\ Len(canvas.layers) = 2
  /\ \E p \in Pixels(canvas) : Len(PixelAt(canvas, p[1], p[2])) = 2


(***************************************************************************)
(* mergeImages.  A call is a record:                                       *)
(*   args      - the two files and the options it was called with          *)
(*   hasCtx    - whether canvas.getContext('2d') gave a context            *)
(*   canvas    - the call's own surface                                    *)
(*   profileUrl, frameUrl - its object URLs (0: none was created)          *)
(*   profile, frame - its Image elements: load state and decoded image     *)
(*   profileLoaded, frameLoaded - the closure's flags                      *)
(*   renders, renderThrew - compositor invocations, and whether it threw   *)
(*   encodes, encoder, snapshot - toBlob invocations, the encoder's state  *)
(*               and the bitmap handed to it                               *)
(*   promise   - the returned promise                                      *)
(*   revoked   - the URLs the call has passed to URL.revokeObjectURL       *)
(*   hist      - the callbacks delivered to the call so far                *)
(* A handler is an operator on st = [c |-> call, u |-> object-URL store].  *)
(***************************************************************************)
File(kind, image) == [kind |-> kind, image |-> image]

Unloaded(id) == [state |-> "none", img |-> Image(id, 0, 0, 0, 0, "none")]

PendingPromise == [state |-> "pending", error |-> "", blob |-> <<>>]

\* the promise's reject function: a settled promise stays as it is
Reject(st, error) ==
  IF st.c.promise.state # "pending" THEN st
  ELSE [st EXCEPT !.c.promise = [state |-> "rejected", error |-> error, blob |-> <<>>]]

\* the promise's resolve function
Resolve(st, blob) ==
  IF st.c.promise.state # "pending" THEN st
  ELSE [st EXCEPT !.c.promise = [state |-> "fulfilled", error |-> "", blob |-> <<blob>>]]

\* the URL that URL.createObjectURL returns: one never handed out before
FreshUrl(u) == u.next

\* the store after URL.createObjectURL has returned url
createObjectURL(st, url) ==
  [st EXCEPT !.u.live = @ \cup {url}, !.u.next = @ + 1]

\* URL.revokeObjectURL(url)
revokeObjectURL(st, url) ==
  [st EXCEPT !.u.live = @ \ {url}, !.c.revoked = @ \cup {url}]

RevokeBoth(st) ==
  revokeObjectURL(revokeObjectURL(st, st.c.profileUrl), st.c.frameUrl)

\* a faulty destructuring: the rotation is dropped
DestructuredNoRotation(options) ==
  [profileScale |-> Opt(options, "profileScale", RInt(1)),
   frameScale |-> Opt(options, "frameScale", RInt(1)),
   profileRotation |-> 0,
   profileOffsetX |-> Opt(options, "profileOffsetX", 0),
   profileOffsetY |-> Opt(options, "profileOffsetY", 0)]

\* the options as mergeImages destructures them, defaults filled in
Destructured(options) ==
  [profileScale |-> Opt(options, "profileScale", RInt(1)),
   frameScale |-> Opt(options, "frameScale", RInt(1)),
   profileRotation |-> Opt(options, "profileRotation", 0),
   profileOffsetX |-> Opt(options, "profileOffsetX", 0),
   profileOffsetY |-> Opt(options, "profileOffsetY", 0)]

\* tryMerge once the render has returned or thrown, r being its result
Composited(st, r) ==
  LET counted == [st EXCEPT !.c.renders = @ + 1, !.c.renderThrew = r.threw,
                            !.c.canvas = r.surface]
  IN  IF r.threw
      THEN Reject(RevokeBoth(counted), r.error)
      ELSE [counted EXCEPT !.c.encodes = @ + 1, !.c.encoder = "pending",
                           !.c.snapshot = <<r.surface>>]

\* the body of tryMerge past its guard: render, then revoke and reject if
\* the render threw, else hand the canvas to the encoder
Merge(st) ==
  Composited(st, renderCompositeToCanvas(st.c.canvas, st.c.profile.img,
                                         st.c.frame.img,
                                         Destructured(st.c.args.options)))

\* a faulty tryMerge: it does not wait for both flags
tryMergeUnguarded(st) == Merge(st)

\* tryMerge
tryMerge(st) ==
  IF ~st.c.profileLoaded \/ ~st.c.frameLoaded THEN st ELSE Merge(st)

\* profile.onload
profileOnload(st) == tryMerge([st EXCEPT !.c.profileLoaded = TRUE])

\* a faulty frame.onload: it sets its flag and does not try the merge
frameOnloadFlagOnly(st) == [st EXCEPT !.c.frameLoaded = TRUE]

\* frame.onload
frameOnload(st) == tryMerge([st EXCEPT !.c.frameLoaded = TRUE])

\* a faulty profile.onerror: it revokes the URLs and does not reject
profileOnerrorNoReject(st) == RevokeBoth(st)

\* profile.onerror
profileOnerror(st) == Reject(RevokeBoth(st), "Failed to load profile image")

\* a faulty frame.onerror: it revokes its own URL only
frameOnerrorOwnUrlOnly(st) ==
  Reject(revokeObjectURL(st, st.c.frameUrl), "Failed to load frame image")

\* frame.onerror
frameOnerror(st) == Reject(RevokeBoth(st), "Failed to load frame image")

\* a faulty toBlob callback: it resolves whatever it is given
toBlobCallbackAlwaysResolves(st, blob) ==
  [Resolve(RevokeBoth(st), IF blob = <<>> THEN FreshSurface ELSE blob[1])
     EXCEPT !.c.encoder = "done"]

\* the callback given to canvas.toBlob; blob is <<>> for null, else <<png>>
toBlobCallback(st, blob) ==
  LET over == [st EXCEPT !.c.encoder = "done"]
  IN  IF blob # <<>>
      THEN Resolve(RevokeBoth(over), blob[1])
      ELSE Reject(RevokeBoth(over), "Failed to create blob")

\* the executor of the promise mergeImages returns
mergeImages(u, profileImage, frameImage, options, hasCtx) ==
  LET c0 == [args |-> [profileImage |-> profileImage, frameImage |-> frameImage,
                       options |-> options],
             hasCtx |-> hasCtx, canvas |-> FreshSurface,
             profileUrl |-> 0, frameUrl |-> 0,
             profile |-> Unloaded("profile"), frame |-> Unloaded("frame"),
             profileLoaded |-> FALSE, frameLoaded |-> FALSE,
             renders |-> 0, renderThrew |-> FALSE,
             encodes |-> 0, encoder |-> "idle", snapshot |-> <<>>,
             promise |-> PendingPromise, revoked |-> {}, hist |-> <<>>]
      st0 == [c |-> c0, u |-> u]
  IN  IF ~hasCtx THEN Reject(st0, "Could not get canvas context")
      ELSE LET profileUrl == FreshUrl(st0.u)
               st1 == [createObjectURL(st0, profileUrl) EXCEPT !.c.profileUrl = profileUrl]
               frameUrl == FreshUrl(st1.u)
               st2 == [createObjectURL(st1, frameUrl) EXCEPT !.c.frameUrl = frameUrl]
           IN  [st2 EXCEPT !.c.profile.state = "loading", !.c.frame.state = "loading"]


(***************************************************************************)
(* The callbacks the browser delivers to a call.  An image whose file      *)
(* decodes can load; it fails if the file does not decode, and it may      *)
(* fail if its URL was revoked while it was still loading; a failed        *)
(* element is in the broken state.  The encoder                            *)
(* answers a toBlob with a blob of the bitmap it was handed, or with null. *)
(***************************************************************************)
Events == {"profileLoad", "frameLoad", "profileError", "frameError", "blob", "noBlob"}

EventEnabled(st, e) ==
  CASE e = "profileLoad" ->
         st.c.profile.state = "loading" /\ st.c.args.profileImage.kind = "image"
    [] e = "frameLoad" ->
         st.c.frame.state = "loading" /\ st.c.args.frameImage.kind = "image"
    [] e = "profileError" ->
         /\ st.c.profile.state = "loading"
         /\ (st.c.args.profileImage.kind = "corrupt" \/ st.c.profileUrl \notin st.u.live)
    [] e = "frameError" ->
         /\ st.c.frame.state = "loading"
         /\ (st.c.args.frameImage.kind = "corrupt" \/ st.c.frameUrl \notin st.u.live)
    [] OTHER -> st.c.encoder = "pending"

\* the call and the store after one callback: the browser's part (the
\* element's state changes), then the handler the call registered
Noted(st, e) == [st EXCEPT !.c.hist = Append(@, e)]

ProfileLoad(st) ==
  profileOnload([Noted(st, "profileLoad") EXCEPT !.c.profile =
      [state |-> "loaded", img |-> st.c.args.profileImage.image]])

FrameLoad(st) ==
  frameOnload([Noted(st, "frameLoad") EXCEPT !.c.frame =
      [state |-> "loaded", img |-> st.c.args.frameImage.image]])

ProfileError(st) ==
  profileOnerror([Noted(st, "profileError") EXCEPT
      !.c.profile = [state |-> "failed", img |-> Broken(@.img)]])

FrameError(st) ==
  frameOnerror([Noted(st, "frameError") EXCEPT
      !.c.frame = [state |-> "failed", img |-> Broken(@.img)]])

Blob(st) == toBlobCallback(Noted(st, "blob"), st.c.snapshot)

NoBlob(st) == toBlobCallback(Noted(st, "noBlob"), <<>>)

EventApply(st, e) ==
  CASE e = "profileLoad" -> ProfileLoad(st)
    [] e = "frameLoad" -> FrameLoad(st)
    [] e = "profileError" -> ProfileError(st)
    [] e = "frameError" -> FrameError(st)
    [] e = "blob" -> Blob(st)
    [] OTHER -> NoBlob(st)

(***************************************************************************)
(* Two overlapping mergeImages calls.                                      *)
(***************************************************************************)
ProfileFiles ==
  { File("image", Image("profile", 1, MaxDim, 1, MaxDim, "opaque")),
    File("image", Image("profile", 0, 0, 0, 0, "none")),
    File("corrupt", NoImage) }

FrameFiles ==
  { File("image", Image("frame", MaxDim, MaxDim, MaxDim, MaxDim, "cutout")),
    File("corrupt", NoImage) }

MergeOptions ==
  { [k \in {} |-> 0],
    [profileScale |-> Rat(3, 2), frameScale |-> Rat(1, 2), profileRotation |-> 90,
     profileOffsetX |-> MaxOffset, profileOffsetY |-> 0] }

CallIds == 1 .. Len(calls)

\* a caller calls mergeImages
Start(profileImage, frameImage, options, hasCtx) ==
  /\ Len(calls) < 2
  /\ LET st == mergeImages(urls, profileImage, frameImage, options, hasCtx)
     IN  /\ calls' = Append(calls, st.c)
         /\ urls' = st.u
  /\ UNCHANGED <<canvas, last, done, input, app>>

\* what the handlers of call i close over: the variables the executor of
\* that call declared, and the object-URL store, which all calls share
St(i) == [c |-> calls[i], u |-> urls]

\* faulty scoping: profileLoaded and frameLoaded are declared outside
\* mergeImages, one pair of flags for all calls
AssignedSharedFlags(cs, i, c) ==
  [j \in DOMAIN cs |->
     IF j = i THEN c
     ELSE [cs[j] EXCEPT !.profileLoaded = c.profileLoaded,
                        !.frameLoaded = c.frameLoaded]]

\* the calls cs after a handler of call i has left its variables as c: the
\* canvas, the elements, the URLs and the flags a handler assigns are those
\* declared in the executor of its own call
Assigned(cs, i, c) == [cs EXCEPT ![i] = c]

\* the browser delivers callback e to call i; next is the call and the
\* store after it
Deliver(i, e, next) ==
  /\ EventEnabled(St(i), e)
  /\ calls' = Assigned(calls, i, next.c)
  /\ urls' = next.u
  /\ UNCHANGED <<canvas, last, done, input, app>>

MergeStart ==
  \E profileImage \in ProfileFiles, frameImage \in FrameFiles,
     options \in MergeOptions, hasCtx \in BOOLEAN :
    Start(profileImage, frameImage, options, hasCtx)

ProfileLoads == \E i \in CallIds : Deliver(i, "profileLoad", ProfileLoad(St(i)))
FrameLoads == \E i \in CallIds : Deliver(i, "frameLoad", FrameLoad(St(i)))
ProfileFails == \E i \in CallIds : Deliver(i, "profileError", ProfileError(St(i)))
FrameFails == \E i \in CallIds : Deliver(i, "frameError", FrameError(St(i)))
BlobDelivered == \E i \in CallIds : Deliver(i, "blob", Blob(St(i)))
NullBlobDelivered == \E i \in CallIds : Deliver(i, "noBlob", NoBlob(St(i)))

InitMergeRun == InitSurface /\ InitMerge /\ input = NoInput

NextMerge ==
  \/ MergeStart
  \/ ProfileLoads
  \/ FrameLoads
  \/ ProfileFails
  \/ FrameFails
  \/ BlobDelivered
  \/ NullBlobDelivered

SpecMerge == InitMergeRun /\ [][NextMerge]_vars


(***************************************************************************)
(* Properties of mergeImages.                                              *)
(***************************************************************************)
BothLoaded(c) == c.profile.state = "loaded" /\ c.frame.state = "loaded"

Settled(c) == c.promise.state # "pending"

LoadErrors == {"Failed to load profile image", "Failed to load frame image"}

\* C4: in every call and after every interleaving of the load events, the
\* compositor has been invoked once if both images have loaded and not at
\* all otherwise
C4_Join ==
  \A i \in CallIds :
    calls[i].renders = (IF BothLoaded(calls[i]) THEN 1 ELSE 0)

\* two calls that rendered, one whose frame loaded first and one whose
\* profile loaded first
C4_Witness ==
  \E i, j \in CallIds :
    /\ calls[i].renders = 1 /\ calls[i].hist = <<"frameLoad", "profileLoad">>
    /\ calls[j].renders = 1 /\ calls[j].hist = <<"profileLoad", "frameLoad">>

\* C5: once the promise of a call is settled, neither of the object URLs
\* the call created is live
C5_UrlsRevoked ==
  \A i \in CallIds :
    Settled(calls[i]) =>
      /\ calls[i].profileUrl \notin urls.live
      /\ calls[i].frameUrl \notin urls.live

\* a call settled by an encode failure beside one settled by a render
\* failure, each after creating two URLs
C5_Witness ==
  \E i, j \in CallIds :
    /\ calls[i].promise.error = "Failed to create blob"
    /\ calls[j].promise.error = "Invalid image dimensions"
    /\ calls[i].profileUrl # 0 /\ calls[i].frameUrl # 0
    /\ calls[j].profileUrl # 0 /\ calls[j].frameUrl # 0

\* C6: a call one of whose images failed to load is rejected with a load
\* failure and has invoked neither the compositor nor the encoder, whether
\* the other image loaded before, afterwards or not at all
C6_DecodeFailure ==
  \A i \in CallIds :
    (calls[i].profile.state = "failed" \/ calls[i].frame.state = "failed") =>
      /\ calls[i].promise.state = "rejected"
      /\ calls[i].promise.error \in LoadErrors
      /\ calls[i].renders = 0
      /\ calls[i].encodes = 0

\* the other image loaded after the failure in one call and before it in
\* the other
C6_Witness ==
  \E i, j \in CallIds :
    /\ calls[i].hist = <<"frameError", "profileLoad">>
    /\ calls[j].hist = <<"profileLoad", "frameError">>

ErrorOccurred(c) ==
  \/ ~c.hasCtx
  \/ c.profile.state = "failed" \/ c.frame.state = "failed"
  \/ c.renderThrew
  \/ \E k \in 1 .. Len(c.hist) : c.hist[k] = "noBlob"

C7_Outcome(c) ==
  /\ c.promise.state = "fulfilled" =>
       /\ BothLoaded(c) /\ c.renders = 1 /\ ~c.renderThrew
       /\ c.hist[Len(c.hist)] = "blob"
       /\ c.promise.blob = c.snapshot /\ c.snapshot # <<>>
  /\ ErrorOccurred(c) => c.promise.state = "rejected" /\ c.promise.blob = <<>>
  /\ c.renderThrew => c.promise.error = "Invalid image dimensions" /\ c.encodes = 0

\* C7: a promise, once settled, does not change; it is fulfilled only with
\* the encoder's blob of a render that returned after both images loaded;
\* a call in which a context, load, render or encode error occurred is
\* rejected and holds no blob, a render error without any encode
C7_NoPartialOutput ==
  /\ [](\A i \in CallIds : C7_Outcome(calls[i]))
  /\ [][\A i \in CallIds :
          Settled(calls[i]) => calls'[i].promise = calls[i].promise]_vars

\* a fulfilled call beside one rejected twice over (both images failed)
C7_Witness ==
  \E i, j \in CallIds :
    /\ calls[i].promise.state = "fulfilled"
    /\ calls[j].hist = <<"profileError", "frameError">>

\* the callbacks of c replayed on a call made alone, with a URL store of its
\* own: the call and the store after the first k of them, and whether each
\* callback could be delivered there
RECURSIVE Replay(_, _)
Replay(c, k) ==
  IF k = 0
  THEN [st |-> mergeImages([live |-> {}, next |-> 1], c.args.profileImage,
                           c.args.frameImage, c.args.options, c.hasCtx),
        ok |-> TRUE]
  ELSE LET before == Replay(c, k - 1)
       IN  [st |-> EventApply(before.st, c.hist[k]),
            ok |-> before.ok /\ EventEnabled(before.st, c.hist[k])]

\* what a call shows, whatever the names of its URLs
Outcome(c, live) ==
  [call |-> [c EXCEPT !.profileUrl = 0, !.frameUrl = 0, !.revoked = {}],
   revokedProfile |-> c.profileUrl \in c.revoked,
   revokedFrame |-> c.frameUrl \in c.revoked,
   revokedOther |-> c.revoked \ {c.profileUrl, c.frameUrl},
   liveProfile |-> c.profileUrl \in live,
   liveFrame |-> c.frameUrl \in live]

\* the URLs a call created
OwnUrls(c) == {c.profileUrl, c.frameUrl} \ {0}

\* C9: each of two overlapping calls is, after every interleaving of their
\* callbacks, where the same callbacks would have brought it had it run
\* alone: the same promise, surface and flags, the same URLs revoked; and a
\* callback of one call changes the surface, the flags, the elements and
\* the promise of that call only and revokes only URLs that call created
C9_Independent ==
  /\ [](\A i \in CallIds :
         LET alone == Replay(calls[i], Len(calls[i].hist))
         IN  /\ alone.ok
             /\ Outcome(calls[i], urls.live) = Outcome(alone.st.c, alone.st.u.live))
  /\ [][/\ \A i, j \in CallIds :
            (calls'[i] # calls[i] /\ calls'[j] # calls[j]) => i = j
        /\ \A url \in urls.live \ urls'.live :
            \E i \in CallIds : calls'[i] # calls[i] /\ url \in OwnUrls(calls[i])
        /\ \A i \in CallIds :
            calls'[i] = calls[i] => OwnUrls(calls[i]) \cap urls'.live
                                     = OwnUrls(calls[i]) \cap urls.live]_vars

\* two calls in flight at once, each having received callbacks
C9_Witness ==
  /\ Len(calls) = 2
  /\ calls[1].encoder = "pending"
  /\ calls[2].profile.state = "failed" /\ calls[2].frame.state = "loading"

\* the surface of size w by h that holds the two layers placed by g
Composite(profile, frame, w, h, g) ==
  LET profileLayer ==
        [kind |-> "draw", img |-> profile,
         ctm |-> [tx |-> g.profileCenterX, ty |-> g.profileCenterY,
                  rot |-> g.rotationDegrees % 360],
         dx |-> FNeg(FHalf(g.finalProfileWidth)), dy |-> FNeg(FHalf(g.finalProfileHeight)),
         dw |-> g.finalProfileWidth, dh |-> g.finalProfileHeight]
      frameLayer ==
        [kind |-> "draw", img |-> frame, ctm |-> Identity,
         dx |-> g.frameOffsetX, dy |-> g.frameOffsetY,
         dw |-> g.scaledFrameWidth, dh |-> g.scaledFrameHeight]
  IN  [width |-> w, height |-> h, ctm |-> Identity, stack |-> <<>>,
       layers |-> (IF HasBitmap(profile) THEN <<profileLayer>> ELSE <<>>)
                  \o (IF HasBitmap(frame) THEN <<frameLayer>> ELSE <<>>)]

\* the surface holding the whole composite of a call's arguments
CompleteComposite(profile, frame, options) ==
  CHOOSE surface \in
    { Composite(profile, frame, w, h, g) :
        <<w, h, g>> \in
          { <<w, h, Geometry(w, h, w, h, Dim(profile.naturalWidth, profile.width),
                             Dim(profile.naturalHeight, profile.height), options)>> :
              w \in {Dim(frame.naturalWidth, frame.width)},
              h \in {Dim(frame.naturalHeight, frame.height)} } } : TRUE

\* the surface of an export is as it was before the render or the complete
\* composite, and the encoder is handed the complete one
ExportIsOneUnit(c) ==
  \/ /\ c.renders = 0 \/ c.renderThrew
     /\ c.canvas = FreshSurface /\ c.snapshot = <<>>
  \/ /\ c.renders = 1 /\ ~c.renderThrew
     /\ c.canvas = CompleteComposite(c.profile.img, c.frame.img,
                                     Destructured(c.args.options))
     /\ c.snapshot = <<c.canvas>>

\* the preview canvas, which renderPreview reuses for one render after
\* another, is as it was mounted or the complete composite of the most
\* recent render that returned
PreviewIsOneUnit(cv) ==
  \/ cv.shown = <<>> /\ cv.surface = FreshSurface
  \/ /\ cv.shown # <<>>
     /\ cv.surface = CompleteComposite(cv.shown[1].profile, cv.shown[1].frame,
                                       cv.shown[1].options)

\* C10: in every state in which a handler can run or a surface can be read
\* (between the handlers of user events, of load events of the preview and
\* of the callbacks of the exports) the preview canvas and the canvas of
\* every export are either as they were before a render or complete
\* composites: no handler finds a surface between its clear and its frame
\* draw
C10_RenderIsOneUnit ==
  /\ \A i \in CallIds : ExportIsOneUnit(calls[i])
  /\ app.previewCanvas # <<>> => PreviewIsOneUnit(app.previewCanvas[1])

\* the preview canvas rendered again for a moved slider, over the composite
\* it held, while an export that has rendered waits for its encoder
C10_Witness ==
  /\ app.previewCanvas # <<>> /\ app.slides > 0
  /\ app.previewCanvas[1].shown # <<>>
  /\ app.previewCanvas[1].shown[1].options = app.params
  /\ app.params # InitialParams
  /\ Len(app.previewCanvas[1].surface.layers) = 2
  /\ \E i \in CallIds :
       /\ calls[i].renders = 1 /\ ~calls[i].renderThrew
       /\ calls[i].encoder = "pending"
       /\ Len(calls[i].canvas.layers) = 2
       /\ app.gens[i].canvas # <<>> /\ app.gens[i].canvas[1].shown # <<>>
       /\ calls[i].canvas # app.previewCanvas[1].surface


(***************************************************************************)
(* The placement computed by the compositor, over frame and profile sizes  *)
(* of every aspect and over angles of any kind: one call on a fresh        *)
(* surface whose context operations are read back from the log.            *)
(***************************************************************************)
PlaceSizes == 1 .. (MaxDim + 1)

\* sizes whose cover scale is not a double: 1024/784, 1024/1000, 1/49
PlaceProfiles ==
  { Image("profile", w, h, w, h, "opaque") : w \in PlaceSizes, h \in PlaceSizes }
  \cup { Image("profile", 400, 600, 400, 600, "opaque"),
         Image("profile", 784, 1000, 784, 1000, "opaque"),
         Image("profile", 49, 49, 49, 49, "opaque") }

PlaceFrames ==
  { Image("frame", w, h, w, h, "cutout") : w \in PlaceSizes, h \in PlaceSizes }
  \cup { Image("frame", 800, 800, 800, 800, "cutout"),
         Image("frame", 1024, 1024, 1024, 1024, "cutout") }

PlaceOptions ==
  [profileScale : ProfileScales, frameScale : FrameScales,
   profileRotation : {0 - 45, 0, 90, 180},
   profileOffsetX : {0 - MaxOffset, 0, MaxOffset},
   profileOffsetY : {0 - MaxOffset, 0, MaxOffset}]
  \cup PartialOptions

InitPlace ==
  /\ InitSurface /\ InitMerge
  /\ input \in [profile : PlaceProfiles, frame : PlaceFrames, options : PlaceOptions]

NextPlace == RenderInput

SpecPlace == InitPlace /\ [][NextPlace]_vars


(***************************************************************************)
(* Properties of the placement.  The numbers handed to the context are     *)
(* doubles; the properties compare their values as real numbers.           *)
(***************************************************************************)
\* the operations of the last call, read back from the log
TranslateOp == SelectSeq(last.ops, LAMBDA o : o[1] = "translate")[1]
RotateOp == SelectSeq(last.ops, LAMBDA o : o[1] = "rotate")[1]
ProfileDraw == SelectSeq(last.ops, LAMBDA o : o[1] = "drawImage" /\ o[2] = "profile")[1]
FrameDraw == SelectSeq(last.ops, LAMBDA o : o[1] = "drawImage" /\ o[2] = "frame")[1]

Given(key, default) == Opt(input.options, key, default)

\* the numbers a and b are the same number
Same(a, b) == Sign(XSub(a, b)) = 0

\* a is within r * 2^(-k) of b
Within(a, b, r, k) == XLe(XAbs(XSub(a, b)), Ulps(r, k))

\* max(W/pw, H/ph), by cross multiplication
CoverScale(W, H, pw, ph) == IF W * ph >= H * pw THEN Rat(W, pw) ELSE Rat(H, ph)

\* the corner of the profile rectangle before rotation, without the user's offsets
UnOffsetX == XSub(XAdd(TranslateOp[2], ProfileDraw[3]), RInt(Given("profileOffsetX", 0)))
UnOffsetY == XSub(XAdd(TranslateOp[3], ProfileDraw[4]), RInt(Given("profileOffsetY", 0)))

\* C11 as it is stated: the profile is drawn pw*max(W/pw, H/ph)*s wide and
\* ph*max(W/pw, H/ph)*s high, in the profile's own aspect ratio, and its
\* position before the user's offsets is ((W - width)/2, (H - height)/2);
\* frame 800x800 with profile 400x600 at scale 1 gives cover scale 2, size
\* 800x1200, position (0, -200)
C11_CoverScaled ==
  (last.called /\ ~last.threw) =>
    LET W == last.frame.naturalWidth
        H == last.frame.naturalHeight
        pw == last.profile.naturalWidth
        ph == last.profile.naturalHeight
        s == Given("profileScale", RInt(1))
        cover == CoverScale(W, H, pw, ph)
        width == ProfileDraw[5]
        height == ProfileDraw[6]
    IN  /\ Same(width, XTimes(s, RMul(RInt(pw), cover)))
        /\ Same(height, XTimes(s, RMul(RInt(ph), cover)))
        /\ Same(XTimes(width, RInt(ph)), XTimes(height, RInt(pw)))
        /\ Same(XAdd(UnOffsetX, UnOffsetX), XSub(RInt(W), width))
        /\ Same(XAdd(UnOffsetY, UnOffsetY), XSub(RInt(H), height))
        /\ (W = 800 /\ H = 800 /\ pw = 400 /\ ph = 600 /\ s = RInt(1)) =>
             /\ cover = RInt(2)
             /\ width = RInt(800) /\ height = RInt(1200)
             /\ UnOffsetX = RInt(0) /\ UnOffsetY = RInt(0 - 200)

\* C11, within rounding: the width and the height drawn are the doubles
\* that pw*max(W/pw, H/ph)*s and ph*max(W/pw, H/ph)*s give when every
\* operation rounds; they are within 2^-51 of these products as real
\* numbers, and their ratio is within 2^-50 of pw : ph; the position before
\* the user's offsets is ((W - width)/2, (H - height)/2) of the width and
\* height drawn, exactly; frame 800x800 with profile 400x600 at scale 1
\* gives cover scale 2, size 800x1200, position (0, -200), exactly
C11_CoverScaledRounded ==
  (last.called /\ ~last.threw) =>
    LET W == last.frame.naturalWidth
        H == last.frame.naturalHeight
        pw == last.profile.naturalWidth
        ph == last.profile.naturalHeight
        s == Given("profileScale", RInt(1))
        cover == CoverScale(W, H, pw, ph)
        width == ProfileDraw[5]
        height == ProfileDraw[6]
        area == RMul(RMul(RInt(pw * ph), cover), Nom(s))
    IN  /\ width = FMul(FMul(RInt(pw), Dbl(cover)), s)
        /\ height = FMul(FMul(RInt(ph), Dbl(cover)), s)
        /\ Within(width, XTimes(s, RMul(RInt(pw), cover)),
                  RMul(RMul(RInt(pw), cover), Nom(s)), Precision - 1)
        /\ Within(height, XTimes(s, RMul(RInt(ph), cover)),
                  RMul(RMul(RInt(ph), cover), Nom(s)), Precision - 1)
        /\ Within(XTimes(width, RInt(ph)), XTimes(height, RInt(pw)), area, Precision - 2)
        /\ Same(XAdd(UnOffsetX, UnOffsetX), XSub(RInt(W), width))
        /\ Same(XAdd(UnOffsetY, UnOffsetY), XSub(RInt(H), height))
        /\ (W = 800 /\ H = 800 /\ pw = 400 /\ ph = 600 /\ s = RInt(1)) =>
             /\ cover = RInt(2)
             /\ width = RInt(800) /\ height = RInt(1200)
             /\ UnOffsetX = RInt(0) /\ UnOffsetY = RInt(0 - 200)

\* the 1024x1024 frame with the 784x1000 profile at scale 1, turned and
\* moved: the width drawn is the double below 1024, and the ratio of width
\* to height is not 784 : 1000
C11_Witness ==
  /\ last.called /\ ~last.threw
  /\ last.frame.naturalWidth = 1024 /\ last.profile.naturalWidth = 784
  /\ Given("profileScale", RInt(1)) = RInt(1)
  /\ XLt(ProfileDraw[5], RInt(1024))
  /\ ~Same(XTimes(ProfileDraw[5], RInt(1000)), XTimes(ProfileDraw[6], RInt(784)))
  /\ RotateOp[2] = 0 - 45 /\ Given("profileOffsetY", 0) = MaxOffset


\* the profile rectangle as drawn when it is not rotated
DrawnLeft == XAdd(TranslateOp[2], ProfileDraw[3])
DrawnTop == XAdd(TranslateOp[3], ProfileDraw[4])
DrawnRight == XAdd(DrawnLeft, ProfileDraw[5])
DrawnBottom == XAdd(DrawnTop, ProfileDraw[6])

Untransformed ==
  /\ Given("profileScale", RInt(1)) = RInt(1)
  /\ Given("profileRotation", 0) = 0
  /\ Given("profileOffsetX", 0) = 0 /\ Given("profileOffsetY", 0) = 0

\* C12 as it is stated: at profileScale 1 with no offset and no rotation the
\* drawn profile rectangle covers the whole canvas, is as wide or as high as
\* the canvas exactly, and overhangs it by the same amount on opposing sides
C12_CoverFit ==
  (last.called /\ ~last.threw /\ Untransformed) =>
    LET cw == RInt(canvas.width)
        ch == RInt(canvas.height)
    IN  /\ XLe(cw, ProfileDraw[5]) /\ XLe(ch, ProfileDraw[6])
        /\ XLe(DrawnLeft, RInt(0)) /\ XLe(cw, DrawnRight)
        /\ XLe(DrawnTop, RInt(0)) /\ XLe(ch, DrawnBottom)
        /\ Same(ProfileDraw[5], cw) \/ Same(ProfileDraw[6], ch)
        /\ Same(XSub(RInt(0), DrawnLeft), XSub(DrawnRight, cw))
        /\ Same(XSub(RInt(0), DrawnTop), XSub(DrawnBottom, ch))

\* C12, within rounding: at profileScale 1 with no offset and no rotation
\* the drawn profile rectangle is at least (1 - 2^-52) times as wide and as
\* high as the canvas, leaves at most 2^-53 of the canvas size uncovered at
\* any side, is within 2^-52 of the canvas in width or in height, and
\* overhangs (or falls short of) the canvas by the same amount on opposing
\* sides, exactly
C12_CoverFitRounded ==
  (last.called /\ ~last.threw /\ Untransformed) =>
    LET cw == RInt(canvas.width)
        ch == RInt(canvas.height)
    IN  /\ XLe(XSub(cw, Ulps(cw, Precision)), ProfileDraw[5])
        /\ XLe(XSub(ch, Ulps(ch, Precision)), ProfileDraw[6])
        /\ XLe(DrawnLeft, Ulps(cw, Precision + 1))
        /\ XLe(XSub(cw, Ulps(cw, Precision + 1)), DrawnRight)
        /\ XLe(DrawnTop, Ulps(ch, Precision + 1))
        /\ XLe(XSub(ch, Ulps(ch, Precision + 1)), DrawnBottom)
        /\ Within(ProfileDraw[5], cw, cw, Precision) \/ Within(ProfileDraw[6], ch, ch, Precision)
        /\ Same(XSub(RInt(0), DrawnLeft), XSub(DrawnRight, cw))
        /\ Same(XSub(RInt(0), DrawnTop), XSub(DrawnBottom, ch))

\* a profile higher than the frame's aspect whose cover scale is rounded
\* down: cropped at the top and the bottom, and narrower than the canvas by
\* a rounding error, which shows at the left and at the right
C12_Witness ==
  /\ last.called /\ ~last.threw /\ Untransformed
  /\ XLt(ProfileDraw[5], RInt(canvas.width))
  /\ XLt(RInt(canvas.height), ProfileDraw[6])
  /\ XLt(RInt(0), DrawnLeft) /\ XLt(DrawnRight, RInt(canvas.width))
  /\ XLt(DrawnTop, RInt(0))


\* the centre of the profile rectangle in the coordinates it is drawn in
LocalCentreX == XAdd(ProfileDraw[3], XTimes(ProfileDraw[5], Rat(1, 2)))
LocalCentreY == XAdd(ProfileDraw[4], XTimes(ProfileDraw[6], Rat(1, 2)))

\* the layer of the profile on the surface
ProfileLayer == LayersOf(canvas, "profile")[1]

\* C13: for every scale and angle the profile rectangle is drawn about the
\* origin of a coordinate system that is moved to (canvasWidth/2 +
\* profileOffsetX, canvasHeight/2 + profileOffsetY) and only then rotated,
\* so that point is the centre of the drawn profile, exactly, also where the
\* width and the height drawn are rounded; with offsets 0 it is the canvas
\* centre at 0 and at 180 degrees alike
C13_CentreAndOffsets ==
  (last.called /\ ~last.threw) =>
    LET cx == RAdd(Rat(canvas.width, 2), RInt(Given("profileOffsetX", 0)))
        cy == RAdd(Rat(canvas.height, 2), RInt(Given("profileOffsetY", 0)))
    IN  /\ Same(LocalCentreX, RInt(0)) /\ Same(LocalCentreY, RInt(0))
        /\ ProfileLayer.ctm.tx = cx /\ ProfileLayer.ctm.ty = cy
        /\ ProfileLayer.ctm.rot = Given("profileRotation", 0) % 360
        /\ TranslateOp = <<"translate", cx, cy>>
        /\ RotateOp = <<"rotate", Given("profileRotation", 0)>>
        /\ (Given("profileRotation", 0) = 0) =>
             /\ Same(XAdd(DrawnLeft, DrawnRight), RAdd(cx, cx))
             /\ Same(XAdd(DrawnTop, DrawnBottom), RAdd(cy, cy))

\* a zoomed profile whose width is rounded, turned by 180 degrees and moved
\* left and down
C13_Witness ==
  /\ last.called /\ ~last.threw
  /\ Given("profileRotation", 0) = 180
  /\ Given("profileScale", RInt(1)) = Rat(3, 2)
  /\ Given("profileOffsetX", 0) = 0 - MaxOffset /\ Given("profileOffsetY", 0) = MaxOffset
  /\ ProfileLayer.ctm.tx = RSub(Rat(canvas.width, 2), RInt(MaxOffset))
  /\ canvas.width # canvas.height
  /\ ~Exact(ProfileDraw[5])


\* the layer of the frame on the surface
FrameLayer == LayersOf(canvas, "frame")[1]

\* C14: the frame is drawn after the context is back in the coordinate
\* system the call began with, unrotated, W*frameScale wide and
\* H*frameScale high at ((W - W*frameScale)/2, (H - H*frameScale)/2), the
\* doubles these expressions give, whatever the profile's scale, angle and
\* offsets are
C14_FrameUntransformed ==
  (last.called /\ ~last.threw) =>
    LET W == RInt(last.frame.naturalWidth)
        H == RInt(last.frame.naturalHeight)
        fs == Given("frameScale", RInt(1))
        w == FMul(W, fs)
        h == FMul(H, fs)
    IN  /\ FrameLayer.ctm = FreshSurface.ctm
        /\ canvas.ctm = FreshSurface.ctm /\ canvas.stack = FreshSurface.stack
        /\ FrameDraw = <<"drawImage", "frame",
                         FDiv(FSub(W, w), RInt(2)), FDiv(FSub(H, h), RInt(2)), w, h>>
        /\ <<FrameLayer.dx, FrameLayer.dy, FrameLayer.dw, FrameLayer.dh>>
             = <<FrameDraw[3], FrameDraw[4], FrameDraw[5], FrameDraw[6]>>
        /\ last.ops[Len(last.ops) - 1] = <<"restore">>
        /\ last.ops[Len(last.ops)] = FrameDraw

\* an enlarged frame, its size rounded, over a profile that is zoomed,
\* turned and moved
C14_Witness ==
  /\ last.called /\ ~last.threw
  /\ XLt(RInt(1), Given("frameScale", RInt(1)))
  /\ Given("profileRotation", 0) = 0 - 45
  /\ Given("profileScale", RInt(1)) = Rat(1, 2)
  /\ Given("profileOffsetX", 0) = MaxOffset
  /\ ProfileLayer.ctm # FrameLayer.ctm
  /\ XLt(FrameDraw[3], RInt(0))
  /\ ~Exact(FrameDraw[5])


(***************************************************************************)
(* The App component.  Its state is the record app:                        *)
(*   mounted         - whether the component is mounted                    *)
(*   profileImage, frameImage - the selected files (NoFile for null)       *)
(*   profilePreview, framePreview, mergedImage - object URLs (0 for '')    *)
(*   isProcessing, params - the flag and the five slider values            *)
(*   previewCanvas   - previewCanvasRef.current: <<>> for null, else the   *)
(*                     canvas element (its surface, whether getContext     *)
(*                     gives a context, the composite it shows)            *)
(*   profileImageElementRef, frameImageElementRef - <<>> for null, else    *)
(*                     the effect run whose Image element the ref holds    *)
(*   pairs           - one entry per run of the preview effect that made   *)
(*                     a pair of Image elements: its isCancelled,          *)
(*                     profileReady and frameReady, the renderPreview it   *)
(*                     closed over (by its parameter values), the elements *)
(*   created         - the object URLs the component has created           *)
(*   gens            - per export started by Generate, the parameters and  *)
(*                     the preview canvas at that moment                   *)
(*   downloads       - the fetches started by Download whose blob has not  *)
(*                     arrived yet                                         *)
(*   events, slides  - the number of user events handled, and of slider    *)
(*                     changes among them                                  *)
(*   ev              - the step just taken and whether it installed the    *)
(*                     refs and invoked the compositor                     *)
(*   lastRender      - the most recent preview render: the URLs of the     *)
(*                     elements drawn and the URLs selected at that time   *)
(* Handlers work on w = [a |-> app record, u |-> object-URL store].  A     *)
(* user event is one step: the handler, React's commit of the new state    *)
(* (the canvas ref is attached or detached), then the effects whose        *)
(* dependencies changed, cleanups first.                                   *)
(***************************************************************************)
MaxEvents == 5
MaxEventsExporting == 4
MaxSlides == 1
MaxStale == 1

NoFile == File("none", NoImage)

\* URL.revokeObjectURL(url), called by the component
revokeUrl(w, url) == [w EXCEPT !.u.live = @ \ {url}]

\* URL.createObjectURL(file or blob), called by the component
createUrl(w, url) == [createObjectURL(w, url) EXCEPT !.a.created = @ \cup {url}]

\* handleProfileSelect(file)
handleProfileSelect(w, file) ==
  LET url == FreshUrl(w.u)
  IN  [createUrl(w, url) EXCEPT
         !.a.profileImage = file, !.a.profilePreview = url,
         !.a.params.profileScale = RInt(1), !.a.params.profileRotation = 0,
         !.a.params.profileOffsetX = 0, !.a.params.profileOffsetY = 0]

\* handleFrameSelect(file)
handleFrameSelect(w, file) ==
  LET url == FreshUrl(w.u)
  IN  [createUrl(w, url) EXCEPT
         !.a.frameImage = file, !.a.framePreview = url,
         !.a.params.frameScale = RInt(1)]

\* handleClearProfile()
handleClearProfile(w) ==
  LET w1 == IF w.a.profilePreview # 0 THEN revokeUrl(w, w.a.profilePreview) ELSE w
  IN  [w1 EXCEPT
         !.a.profileImage = NoFile, !.a.profilePreview = 0, !.a.mergedImage = 0,
         !.a.params.profileScale = RInt(1), !.a.params.profileRotation = 0,
         !.a.params.profileOffsetX = 0, !.a.params.profileOffsetY = 0]

\* handleClearFrame()
handleClearFrame(w) ==
  LET w1 == IF w.a.framePreview # 0 THEN revokeUrl(w, w.a.framePreview) ELSE w
  IN  [w1 EXCEPT
         !.a.frameImage = NoFile, !.a.framePreview = 0, !.a.mergedImage = 0,
         !.a.params.frameScale = RInt(1)]

\* a slider's onChange: setProfileScale(v), setFrameScale(v), ...
setParam(w, key, v) == [w EXCEPT !.a.params[key] = v]

\* the preview canvas and the record of the step after renderPreview has
\* called renderCompositeToCanvas on the elements of the refs, with result r;
\* an exception is caught and logged
previewRendered(a, profileImg, frameImg, params, r) ==
  [a EXCEPT
     !.previewCanvas =
       << [@[1] EXCEPT !.surface = r.surface,
                       !.shown = IF r.threw THEN @
                                 ELSE << [profile |-> profileImg.img,
                                          frame |-> frameImg.img,
                                          options |-> params] >>] >>,
     !.ev.rendered = TRUE,
     !.lastRender =
       << [profile |-> profileImg.url, frame |-> frameImg.url,
           profilePreview |-> a.profilePreview,
           framePreview |-> a.framePreview,
           threw |-> r.threw] >>]

\* renderPreview, as created by the render whose parameter values are params
renderPreview(a, params) ==
  IF a.previewCanvas = <<>> THEN a
  ELSE LET cv == a.previewCanvas[1]
       IN  IF ~cv.hasCtx THEN a
           ELSE IF a.profileImageElementRef = <<>> \/ a.frameImageElementRef = <<>>
           THEN [a EXCEPT !.previewCanvas =
                   << [cv EXCEPT !.surface = ClearRect(cv.surface, RInt(0), RInt(0),
                                                       RInt(cv.surface.width),
                                                       RInt(cv.surface.height)),
                                 !.shown = <<>>] >>]
           ELSE LET profileImg == a.pairs[a.profileImageElementRef[1]].profile
                    frameImg == a.pairs[a.frameImageElementRef[1]].frame
                IN  previewRendered(a, profileImg, frameImg, params,
                                    renderCompositeToCanvas(cv.surface, profileImg.img,
                                                            frameImg.img, params))

\* a faulty finalize: it does not look at isCancelled
finalizeUncancelled(a, k) ==
  LET p == a.pairs[k]
  IN  IF ~p.profileReady \/ ~p.frameReady THEN a
      ELSE renderPreview([a EXCEPT !.profileImageElementRef = <<k>>,
                                   !.frameImageElementRef = <<k>>,
                                   !.ev.installed = TRUE],
                         p.renderPreview)

\* finalize of the effect run k
finalize(a, k) ==
  LET p == a.pairs[k]
  IN  IF p.isCancelled \/ ~p.profileReady \/ ~p.frameReady THEN a
      ELSE renderPreview([a EXCEPT !.profileImageElementRef = <<k>>,
                                   !.frameImageElementRef = <<k>>,
                                   !.ev.installed = TRUE],
                         p.renderPreview)

\* whether the browser may have the image of this URL at hand when a user
\* event begins in the state a: the <img> of an ImageUploader has had the
\* URL as its src since an earlier event, or an element of an earlier effect
\* run has loaded it
Available(a, url) ==
  \/ url # 0 /\ url \in {a.profilePreview, a.framePreview}
  \/ \E k \in DOMAIN a.pairs :
       \/ a.pairs[k].profile.url = url /\ a.pairs[k].profile.state \in {"complete", "loaded"}
       \/ a.pairs[k].frame.url = url /\ a.pairs[k].frame.state \in {"complete", "loaded"}

\* new Image() with src assigned; complete tells whether the browser had
\* the image available at once (the load event still follows)
Element(id, url, file, complete) ==
  IF complete /\ file.kind = "image"
  THEN [url |-> url, file |-> file, state |-> "complete", img |-> file.image]
  ELSE [url |-> url, file |-> file, state |-> "loading",
        img |-> Image(id, 0, 0, 0, 0, "none")]

\* the cleanup of the preview effect: isCancelled = true
cancelPreview(a) ==
  [a EXCEPT !.pairs = [k \in DOMAIN @ |-> [@[k] EXCEPT !.isCancelled = TRUE]]]

\* the body of the preview effect; profileComplete and frameComplete tell
\* whether the browser has the image at hand when src is assigned
previewEffect(a, profileComplete, frameComplete) ==
  IF a.previewCanvas = <<>> THEN a
  ELSE IF ~a.previewCanvas[1].hasCtx THEN a
  ELSE IF a.profilePreview = 0 \/ a.framePreview = 0
  THEN LET cv == a.previewCanvas[1]
       IN  [a EXCEPT !.profileImageElementRef = <<>>, !.frameImageElementRef = <<>>,
                     !.previewCanvas =
                       << [cv EXCEPT !.surface = ClearRect(cv.surface, RInt(0), RInt(0),
                                                           RInt(cv.surface.width),
                                                           RInt(cv.surface.height)),
                                     !.shown = <<>>] >>]
  ELSE LET profileImg == Element("profile", a.profilePreview, a.profileImage,
                                  profileComplete)
           frameImg == Element("frame", a.framePreview, a.frameImage,
                                frameComplete)
           pair == [isCancelled |-> FALSE, renderPreview |-> a.params,
                    profile |-> profileImg, frame |-> frameImg,
                    profileReady |-> profileImg.state = "complete"
                                     /\ profileImg.img.naturalWidth # 0,
                    frameReady |-> frameImg.state = "complete"
                                   /\ frameImg.img.naturalWidth # 0]
       IN  finalize([a EXCEPT !.pairs = Append(@, pair)], Len(a.pairs) + 1)

\* an effect run whose elements are neither followed any longer nor held by
\* a ref is forgotten
Forgotten ==
  [isCancelled |-> TRUE, renderPreview |-> InitialParams,
   profile |-> [url |-> 0, file |-> NoFile, state |-> "forgotten", img |-> NoImage],
   frame |-> [url |-> 0, file |-> NoFile, state |-> "forgotten", img |-> NoImage],
   profileReady |-> FALSE, frameReady |-> FALSE]

Followed(a) == { k \in DOMAIN a.pairs : k + MaxStale >= Len(a.pairs) }

Forget(a) ==
  [a EXCEPT !.pairs =
     [k \in DOMAIN @ |->
        IF k \in Followed(a) \/ <<k>> \in {a.profileImageElementRef, a.frameImageElementRef}
        THEN @[k] ELSE Forgotten]]

\* React commits the state new after the state old: the canvas, and with it
\* previewCanvasRef.current, exists while both previews are set
commitCanvas(old, new, hasCtx) ==
  [new EXCEPT !.previewCanvas =
     IF new.profilePreview = 0 \/ new.framePreview = 0 THEN <<>>
     ELSE IF old.previewCanvas = <<>>
          THEN << [surface |-> FreshSurface, hasCtx |-> hasCtx, shown |-> <<>>] >>
          ELSE @]

\* renderPreview is a new callback when one of the five parameters changed
callbackChanged(old, new) == new.params # old.params

\* the dependencies of the preview effect
previewDepsChanged(old, new) ==
  \/ new.profilePreview # old.profilePreview
  \/ new.framePreview # old.framePreview
  \/ callbackChanged(old, new)


\* a faulty continuation: the flag is reset only after a success
generateSettledNoFinally(w, promise) ==
  IF promise.state = "fulfilled"
  THEN LET url == FreshUrl(w.u)
       IN  [createUrl(w, url) EXCEPT
              !.a.mergedImage = IF w.a.mounted THEN url ELSE @,
              !.a.isProcessing = IF w.a.mounted THEN FALSE ELSE @]
  ELSE w

\* the rest of handleGenerate once the promise it awaits has settled: the
\* URL of the blob becomes mergedImage, or the error is reported; finally
\* the flag is reset.  State setters of an unmounted component do nothing.
generateSettled(w, promise) ==
  LET w1 == IF promise.state = "fulfilled"
            THEN LET url == FreshUrl(w.u)
                 IN  [createUrl(w, url) EXCEPT
                        !.a.mergedImage = IF w.a.mounted THEN url ELSE @]
            ELSE w
  IN  [w1 EXCEPT !.a.isProcessing = IF w.a.mounted THEN FALSE ELSE @]

\* handleGenerate as far as its await: the flag is set, then mergeImages is
\* called with the parameter values of this render; the result is the
\* component, the URL store and the new call
handleGenerate(w, hasCtx) ==
  IF w.a.profileImage = NoFile \/ w.a.frameImage = NoFile
  THEN [a |-> w.a, u |-> w.u, c |-> <<>>]
  ELSE LET flagged == [w EXCEPT !.a.isProcessing = TRUE]
           st == mergeImages(flagged.u, flagged.a.profileImage, flagged.a.frameImage,
                             [profileScale |-> flagged.a.params.profileScale,
                              frameScale |-> flagged.a.params.frameScale,
                              profileRotation |-> flagged.a.params.profileRotation,
                              profileOffsetX |-> flagged.a.params.profileOffsetX,
                              profileOffsetY |-> flagged.a.params.profileOffsetY],
                             hasCtx)
           noted == [flagged.a EXCEPT
                       !.ev.flagAtCall = flagged.a.isProcessing,
                       !.gens = Append(@, [params |-> w.a.params,
                                           canvas |-> w.a.previewCanvas])]
       IN  [a |-> noted, u |-> st.u, c |-> <<st.c>>]

\* handleDownload as far as its fetch: fetch(mergedImage) is started; the
\* fetch of a revoked URL fails and nothing follows it
handleDownload(w) ==
  IF w.a.mergedImage = 0 \/ w.a.mergedImage \notin w.u.live THEN w
  ELSE [w EXCEPT !.a.downloads = @ + 1]

\* downloadImage(blob, filename): an object URL is created for the blob,
\* clicked as the href of a link and revoked
downloadImage(w) ==
  LET url == FreshUrl(w.u)
  IN  revokeUrl(createObjectURL(w, url), url)

(***************************************************************************)
(* The steps of the App.                                                   *)
(***************************************************************************)
AppProfileFiles ==
  { File("image", Image("profile", 1, MaxDim, 1, MaxDim, "opaque")),
    File("corrupt", NoImage) }

AppFrameFiles ==
  { File("image", Image("frame", MaxDim, MaxDim, MaxDim, MaxDim, "cutout")),
    File("corrupt", NoImage) }

\* getContext('2d') of the canvas in the page gives a context
PreviewContexts == {TRUE}

SliderValues ==
  [profileScale |-> {RInt(1), Rat(3, 2)}, frameScale |-> {RInt(1), Dbl(Rat(6, 5))},
   profileRotation |-> {0, 45},
   profileOffsetX |-> {0, MaxOffset}, profileOffsetY |-> {0, MaxOffset}]

\* the component and the store as a user event finds them
Begin(kind) ==
  [a |-> [app EXCEPT !.events = @ + 1,
                     !.ev = [kind |-> kind, run |-> 0, rendered |-> FALSE,
                             installed |-> FALSE, flagAtCall |-> FALSE]],
   u |-> urls]

\* a behaviour has MaxEvents user events, MaxEventsExporting once it has an
\* export
UserEventPossible ==
  /\ app.mounted
  /\ app.events < (IF calls = <<>> THEN MaxEvents ELSE MaxEventsExporting)

\* the component and the store after the handler of a user event: React
\* commits the new state, then the preview effect runs again (its cleanup
\* first) when one of its dependencies changed, then the second effect when
\* renderPreview changed; profileAtHand and frameAtHand tell whether the
\* browser still has an image that it may have
Handled(w, hasCtx, profileAtHand, frameAtHand) ==
  /\ \E new \in {w.a} :
     \E committed \in {commitCanvas(app, new, hasCtx)} :
     \E effected \in {IF previewDepsChanged(app, new)
                      THEN previewEffect(cancelPreview(committed),
                                         profileAtHand /\ Available(app, new.profilePreview),
                                         frameAtHand /\ Available(app, new.framePreview))
                      ELSE committed} :
     \E rendered \in {IF callbackChanged(app, new)
                      THEN renderPreview(effected, effected.params)
                      ELSE effected} :
       app' = Forget(rendered)
  /\ urls' = w.u
  /\ UNCHANGED <<canvas, last, done, input>>

\* the drop zone of an ImageUploader is there while it has no preview
SelectProfile ==
  /\ UserEventPossible /\ app.profilePreview = 0
  /\ \E file \in AppProfileFiles, hasCtx \in PreviewContexts, frameAtHand \in BOOLEAN :
       Handled(handleProfileSelect(Begin("selectProfile"), file), hasCtx, FALSE, frameAtHand)
  /\ UNCHANGED calls

SelectFrame ==
  /\ UserEventPossible /\ app.framePreview = 0
  /\ \E file \in AppFrameFiles, hasCtx \in PreviewContexts, profileAtHand \in BOOLEAN :
       Handled(handleFrameSelect(Begin("selectFrame"), file), hasCtx, profileAtHand, FALSE)
  /\ UNCHANGED calls

\* the clear button of an ImageUploader is there while it has a preview
ClearProfile ==
  /\ UserEventPossible /\ app.profilePreview # 0
  /\ Handled(handleClearProfile(Begin("clearProfile")), FALSE, FALSE, FALSE)
  /\ UNCHANGED calls

ClearFrame ==
  /\ UserEventPossible /\ app.framePreview # 0
  /\ Handled(handleClearFrame(Begin("clearFrame")), FALSE, FALSE, FALSE)
  /\ UNCHANGED calls

\* a slider is enabled while both previews are set
Slide(key) ==
  /\ UserEventPossible /\ app.slides < MaxSlides
  /\ app.profilePreview # 0 /\ app.framePreview # 0
  /\ \E v \in SliderValues[key] \ {app.params[key]},
        profileAtHand \in BOOLEAN, frameAtHand \in BOOLEAN :
       Handled([setParam(Begin("slide"), key, v) EXCEPT !.a.slides = @ + 1],
               TRUE, profileAtHand, frameAtHand)
  /\ UNCHANGED calls

SlideProfileScale == Slide("profileScale")
SlideFrameScale == Slide("frameScale")
SlideProfileRotation == Slide("profileRotation")
SlideProfileOffsetX == Slide("profileOffsetX")
SlideProfileOffsetY == Slide("profileOffsetY")

\* the Generate button is enabled while both files are set and no export is
\* being processed; a promise rejected by mergeImages itself is handled
\* before anything else can happen
Generate ==
  /\ UserEventPossible
  /\ app.profileImage # NoFile /\ app.frameImage # NoFile /\ ~app.isProcessing
  /\ \E hasCtx \in BOOLEAN :
     \E g \in {handleGenerate(Begin("generate"), hasCtx)} :
     \E w \in {[a |-> g.a, u |-> g.u]} :
       /\ calls' = Append(calls, g.c[1])
       /\ Handled(IF g.c[1].promise.state # "pending"
                  THEN generateSettled(w, g.c[1].promise)
                  ELSE w,
                  TRUE, FALSE, FALSE)

\* the Download button is there while mergedImage is set
Download ==
  /\ UserEventPossible /\ app.mergedImage # 0
  /\ Handled(handleDownload(Begin("download")), TRUE, FALSE, FALSE)
  /\ UNCHANGED calls

\* the cleanup of the last effect, which closed over the state of the first
\* render
unmountCleanup(w, profilePreview, framePreview, mergedImage) ==
  LET w1 == IF profilePreview # 0 THEN revokeUrl(w, profilePreview) ELSE w
      w2 == IF framePreview # 0 THEN revokeUrl(w1, framePreview) ELSE w1
  IN  IF mergedImage # 0 THEN revokeUrl(w2, mergedImage) ELSE w2

\* the component is unmounted: the cleanups of its effects run
Unmount ==
  /\ UserEventPossible
  /\ LET w == unmountCleanup([a |-> cancelPreview(Begin("unmount").a), u |-> urls],
                             InitialApp.profilePreview, InitialApp.framePreview,
                             InitialApp.mergedImage)
     IN  /\ app' = Forget([w.a EXCEPT !.mounted = FALSE, !.previewCanvas = <<>>])
         /\ urls' = w.u
  /\ UNCHANGED <<canvas, last, done, input, calls>>


\* the step of a callback
Callback(kind, k) ==
  [app EXCEPT !.ev = [kind |-> kind, run |-> k, rendered |-> FALSE,
                      installed |-> FALSE, flagAtCall |-> FALSE]]

\* the effect runs whose elements are still followed: the most recent one
\* and the MaxStale before it
PreviewRuns == Followed(app)

\* profileImg.onload of the effect run k
previewProfileOnload(a, k) == finalize([a EXCEPT !.pairs[k].profileReady = TRUE], k)

\* frameImg.onload of the effect run k
previewFrameOnload(a, k) == finalize([a EXCEPT !.pairs[k].frameReady = TRUE], k)

\* the load event of the profile element of run k
PreviewProfileLoads ==
  /\ \E k \in PreviewRuns :
       /\ app.pairs[k].profile.state \in {"loading", "complete"}
       /\ app.pairs[k].profile.file.kind = "image"
       /\ app' = previewProfileOnload(
                   [Callback("previewLoad", k) EXCEPT
                      !.pairs[k].profile.state = "loaded",
                      !.pairs[k].profile.img = app.pairs[k].profile.file.image], k)
  /\ UNCHANGED <<canvas, last, done, input, calls, urls>>

PreviewFrameLoads ==
  /\ \E k \in PreviewRuns :
       /\ app.pairs[k].frame.state \in {"loading", "complete"}
       /\ app.pairs[k].frame.file.kind = "image"
       /\ app' = previewFrameOnload(
                   [Callback("previewLoad", k) EXCEPT
                      !.pairs[k].frame.state = "loaded",
                      !.pairs[k].frame.img = app.pairs[k].frame.file.image], k)
  /\ UNCHANGED <<canvas, last, done, input, calls, urls>>

\* the error event of an element: its file does not decode, or its URL was
\* revoked while it was loading; profileImg.onerror only logs
PreviewProfileFails ==
  /\ \E k \in PreviewRuns :
       /\ app.pairs[k].profile.state = "loading"
       /\ \/ app.pairs[k].profile.file.kind = "corrupt"
          \/ app.pairs[k].profile.url \notin urls.live
       /\ app' = [Callback("previewError", k) EXCEPT
                     !.pairs[k].profile.state = "failed",
                     !.pairs[k].profile.img = Broken(@)]
  /\ UNCHANGED <<canvas, last, done, input, calls, urls>>

PreviewFrameFails ==
  /\ \E k \in PreviewRuns :
       /\ app.pairs[k].frame.state = "loading"
       /\ \/ app.pairs[k].frame.file.kind = "corrupt"
          \/ app.pairs[k].frame.url \notin urls.live
       /\ app' = [Callback("previewError", k) EXCEPT
                     !.pairs[k].frame.state = "failed",
                     !.pairs[k].frame.img = Broken(@)]
  /\ UNCHANGED <<canvas, last, done, input, calls, urls>>

\* the browser delivers callback e to the export i; when that settles the
\* promise, handleGenerate resumes before any other event
ExportDeliver(i, e, next) ==
  /\ EventEnabled(St(i), e)
  /\ \E n \in {next} :
     \E w \in {[a |-> Callback("export", i), u |-> n.u]} :
     \E after \in {IF calls[i].promise.state = "pending" /\ n.c.promise.state # "pending"
                   THEN generateSettled(w, n.c.promise)
                   ELSE w} :
       /\ calls' = Assigned(calls, i, n.c)
       /\ app' = after.a
       /\ urls' = after.u
  /\ UNCHANGED <<canvas, last, done, input>>

\* the blob of a fetch started by Download arrives: downloadImage is called
DownloadBlob ==
  /\ app.downloads > 0
  /\ \E w \in {downloadImage([a |-> [Callback("download", 0) EXCEPT !.downloads = @ - 1],
                              u |-> urls])} :
       /\ app' = w.a
       /\ urls' = w.u
  /\ UNCHANGED <<canvas, last, done, input, calls>>

ExportProfileLoads == \E i \in CallIds : ExportDeliver(i, "profileLoad", ProfileLoad(St(i)))
ExportFrameLoads == \E i \in CallIds : ExportDeliver(i, "frameLoad", FrameLoad(St(i)))
ExportProfileFails == \E i \in CallIds : ExportDeliver(i, "profileError", ProfileError(St(i)))
ExportFrameFails == \E i \in CallIds : ExportDeliver(i, "frameError", FrameError(St(i)))
ExportBlob == \E i \in CallIds : ExportDeliver(i, "blob", Blob(St(i)))
ExportNoBlob == \E i \in CallIds : ExportDeliver(i, "noBlob", NoBlob(St(i)))

InitApp == InitSurface /\ InitMerge /\ input = NoInput

NextApp ==
  \/ SelectProfile
  \/ SelectFrame
  \/ ClearProfile
  \/ ClearFrame
  \/ SlideProfileScale
  \/ SlideFrameScale
  \/ SlideProfileRotation
  \/ SlideProfileOffsetX
  \/ SlideProfileOffsetY
  \/ Generate
  \/ Download
  \/ Unmount
  \/ PreviewProfileLoads
  \/ PreviewFrameLoads
  \/ PreviewProfileFails
  \/ PreviewFrameFails
  \/ ExportProfileLoads
  \/ ExportFrameLoads
  \/ ExportProfileFails
  \/ ExportFrameFails
  \/ ExportBlob
  \/ ExportNoBlob
  \/ DownloadBlob

SpecApp == InitApp /\ [][NextApp]_vars











(***************************************************************************)
(* Properties of the App.                                                  *)
(***************************************************************************)
\* C16: every preview render draws the elements loaded from the profile and
\* frame URLs selected at that time, never an element of a profile or frame
\* that has been cleared
C16_PreviewDrawsSelected ==
  app.lastRender # <<>> =>
    /\ app.lastRender[1].profile = app.lastRender[1].profilePreview
    /\ app.lastRender[1].frame = app.lastRender[1].framePreview


\* the exports that rendered a composite, and for each the preview canvas
\* as it was when Generate was pressed
Exported == {i \in 1 .. Len(calls) : calls[i].snapshot # <<>>}
PreviewAtGenerate(i) == app.gens[i].canvas[1]
PreviewShownAtGenerate(i) ==
  /\ app.gens[i].canvas # <<>>
  /\ PreviewAtGenerate(i).shown # <<>>
SameImagesAsPreview(i) ==
  /\ PreviewShownAtGenerate(i)
  /\ PreviewAtGenerate(i).shown[1].profile = calls[i].profile.img
  /\ PreviewAtGenerate(i).shown[1].frame = calls[i].frame.img

\* C15: an export receives the five parameter values the preview is
\* rendered with when Generate is pressed, and for the same two images the
\* surface it exports equals the preview surface of that moment, whatever
\* the sliders do afterwards
C15_ExportAsPreview ==
  \A i \in 1 .. Len(calls) :
    /\ calls[i].args.options = app.gens[i].params
    /\ PreviewShownAtGenerate(i) =>
         PreviewAtGenerate(i).shown[1].options = app.gens[i].params
    /\ (i \in Exported /\ SameImagesAsPreview(i)) =>
         /\ calls[i].snapshot[1] = PreviewAtGenerate(i).surface
         /\ calls[i].canvas = PreviewAtGenerate(i).surface

\* an export that has rendered and is still in flight, while a slider has
\* moved since Generate was pressed: the preview now shows the same images
\* with the new values, the export keeps the surface of the old ones
C15_Witness ==
  \E i \in Exported :
    /\ calls[i].promise.state = "pending"
    /\ SameImagesAsPreview(i)
    /\ app.params # app.gens[i].params
    /\ app.previewCanvas # <<>>
    /\ app.previewCanvas[1].shown # <<>>
    /\ app.previewCanvas[1].shown[1].options = app.params
    /\ app.previewCanvas[1].surface # calls[i].snapshot[1]



\* C17: a non-empty merged image implies that a profile and a frame are
\* both selected, also when an export was in flight during a clear
C17_MergedNeedsBoth ==
  app.mergedImage # 0 => (app.profileImage # NoFile /\ app.frameImage # NoFile)


\* the step is a load event of an element of effect run k
PreviewLoadStep(k) ==
  /\ app' # app
  /\ app'.ev.kind = "previewLoad"
  /\ app'.ev.run = k

\* C18: a load event for a pair whose effect run was cleaned up neither
\* assigns the preview image references nor renders; the references change
\* only when a pair is installed, and the pair installed is that of the
\* most recent effect run, not cancelled, with both images ready
C18_SupersededLoadIgnored ==
  [][ /\ \A k \in DOMAIN app.pairs :
           (PreviewLoadStep(k) /\ app.pairs[k].isCancelled) =>
             /\ app'.profileImageElementRef = app.profileImageElementRef
             /\ app'.frameImageElementRef = app.frameImageElementRef
             /\ app'.previewCanvas = app.previewCanvas
             /\ app'.lastRender = app.lastRender
             /\ ~app'.ev.installed
             /\ ~app'.ev.rendered
      /\ (\/ app'.profileImageElementRef # app.profileImageElementRef
          \/ app'.frameImageElementRef # app.frameImageElementRef) =>
           (app' # app /\ app'.ev.installed)
      /\ (app' # app /\ app'.ev.installed) =>
           LET k == Len(app'.pairs)
           IN  /\ k > 0
               /\ app'.profileImageElementRef = <<k>>
               /\ app'.frameImageElementRef = <<k>>
               /\ ~app'.pairs[k].isCancelled
               /\ app'.pairs[k].profileReady /\ app'.pairs[k].frameReady
               /\ app'.pairs[k].profile.state \in {"complete", "loaded"}
               /\ app'.pairs[k].frame.state \in {"complete", "loaded"}
    ]_vars

\* both images of a superseded pair have loaded, the second load found the
\* pair cancelled and ready, and the references still hold another pair
C18_Witness ==
  /\ app.ev.kind = "previewLoad"
  /\ app.ev.run < Len(app.pairs)
  /\ app.pairs[app.ev.run].isCancelled
  /\ app.pairs[app.ev.run].profileReady
  /\ app.pairs[app.ev.run].frameReady
  /\ ~app.ev.installed
  /\ app.profileImageElementRef # <<app.ev.run>>


\* the object URLs App still holds in its state
HeldUrls == {app.profilePreview, app.framePreview, app.mergedImage} \ {0}

\* C19: every object URL App created is revoked once it is cleared or
\* replaced, and all of them once the component is unmounted
C19_NoUrlLeak ==
  (app.created \cap urls.live) \subseteq (IF app.mounted THEN HeldUrls ELSE {})


\* the exports still in flight
InFlight == {i \in 1 .. Len(calls) : calls[i].promise.state = "pending"}

\* C20: while App is mounted isProcessing is true exactly while an export is
\* in flight, the flag is already set when mergeImages is called, and at
\* most one export is in flight
C20_ProcessingWhileInFlight ==
  /\ app.mounted => (app.isProcessing <=> InFlight # {})
  /\ app.ev.kind = "generate" => app.ev.flagAtCall
  /\ Cardinality(InFlight) <= 1

\* a second export is in flight after the first one was rejected by a
\* callback that arrived while it was in flight, which reset the flag
C20_Witness ==
  /\ app.mounted /\ app.isProcessing
  /\ Len(calls) = 2
  /\ calls[1].promise.state = "rejected"
  /\ calls[1].hist # <<>>
  /\ InFlight = {2}














(***************************************************************************)
(* Overlapping mergeImages calls under a browser that answers: while an    *)
(* image element is loading or a toBlob is waiting for its callback, one   *)
(* of the callbacks that are due is eventually delivered.  Every element   *)
(* eventually reporting load or error, and every toBlob eventually getting *)
(* its callback, implies this.                                             *)
(***************************************************************************)
\* some callback is due: a step of ProfileLoads, ..., NullBlobDelivered is
\* possible
CallbackDue == \E i \in CallIds, e \in Events : EventEnabled(St(i), e)

\* the step delivers a callback: every callback is noted in its call's hist
CallbackDelivered ==
  /\ Len(calls') = Len(calls)
  /\ \E i \in CallIds : calls'[i].hist # calls[i].hist

\* weak fairness of the delivery of callbacks, WF_vars of the disjunction of
\* the six callback actions, with its enabledness written as CallbackDue and
\* its step as CallbackDelivered: a callback is not due forever without one
\* being delivered
BrowserAnswers == []<>(~CallbackDue) \/ []<><<CallbackDelivered>>_vars

SpecMergeFair == InitMergeRun /\ [][NextMerge]_vars /\ BrowserAnswers

\* whether call i has been made, and whether its promise has settled
Called(i) == i \in CallIds
SettledCall(i) == Called(i) /\ calls[i].promise.state # "pending"

\* C21: every mergeImages call eventually settles, its promise fulfilled or
\* rejected, when the browser answers every image load and every toBlob
C21_EventuallySettles ==
  \A i \in 1 .. 2 : Called(i) ~> SettledCall(i)

\* two settled calls: in one the profile failed after the frame had loaded,
\* in the other the frame failed while the profile was still loading
C21_Witness ==
  \E i, j \in CallIds :
    /\ calls[i].promise.state = "rejected"
    /\ calls[i].profile.state = "failed" /\ calls[i].frame.state = "loaded"
    /\ calls[j].promise.state = "rejected"
    /\ calls[j].frame.state = "failed" /\ calls[j].profile.state = "loading"





====
